---- MODULE Spec2Model ----
(***************************************************************************)
(* Model of the bookmark-manager popup (static/bookmarks.js): the folder   *)
(* hierarchy cache getFullFolderHierarchy, its flattening processNodes,    *)
(* the in-memory folder index, and the buttons Save, Set Default, Delete   *)
(* and Move with the locations dropdown they share.                        *)
(***************************************************************************)
EXTENDS Integers, Sequences, FiniteSets, TLC

(***************************************************************************)
(* Bounds                                                                  *)
(***************************************************************************)
MaxNodes == 3          \* nodes below the synthetic root in the host tree
MaxTicks == 3          \* clock ticks the model lets pass

(***************************************************************************)
(* Titles and String.prototype.localeCompare                               *)
(***************************************************************************)
\* A title is a sequence of characters; <<>> is the empty string.
Titles == { <<>>, <<"a">>, <<"A">>, <<"a", "B">> }

\* the base letter of a character (primary collation weight)
CharBase(c) == IF c \in {"a", "A"} THEN 1 ELSE 2

\* the case of a character (tertiary collation weight, lowercase first)
CharCase(c) == IF c \in {"a", "b"} THEN 0 ELSE 1

\* the base letters of a string
BaseWeights(s) == [i \in 1 .. Len(s) |-> CharBase(s[i])]

\* the letter cases of a string
CaseWeights(s) == [i \in 1 .. Len(s) |-> CharCase(s[i])]

RECURSIVE CompareWeights(_, _)
\* lexicographic comparison of two weight sequences: -1, 0 or 1; a proper
\* prefix sorts first
CompareWeights(v, w) ==
    IF v = <<>> /\ w = <<>> THEN 0
    ELSE IF v = <<>> THEN -1
    ELSE IF w = <<>> THEN 1
    ELSE IF Head(v) < Head(w) THEN -1
    ELSE IF Head(v) > Head(w) THEN 1
    ELSE CompareWeights(Tail(v), Tail(w))

\* a.localeCompare(b): letters decide first, case only breaks a tie of letters
localeCompare(s, t) ==
    LET primary == CompareWeights(BaseWeights(s), BaseWeights(t))
    IN  IF primary # 0 THEN primary
        ELSE CompareWeights(CaseWeights(s), CaseWeights(t))

(***************************************************************************)
(* The host's bookmark tree                                                *)
(***************************************************************************)
RootId == 0
NodeIds == 0 .. MaxNodes
NoUrl == "none"
Urls == {"u"}

\* A tree gives every node id a title, a url (NoUrl for a folder) and the
\* ordered list of its children; ids not yet created hang nowhere.
EmptyTree ==
    [ title    |-> [n \in NodeIds |-> <<>>],
      url      |-> [n \in NodeIds |-> NoUrl],
      children |-> [n \in NodeIds |-> <<>>] ]

Range(s) == { s[i] : i \in 1 .. Len(s) }

\* the ids that hang somewhere in tree t
Attached(t) == UNION { Range(t.children[n]) : n \in NodeIds }

\* the parent of an attached node
ParentOf(t, n) == CHOOSE p \in NodeIds : n \in Range(t.children[p])

\* the folders of t that can take a child: the root and attached url-less nodes
FolderIds(t) == {RootId} \cup { n \in Attached(t) : t.url[n] = NoUrl }

(***************************************************************************)
(* processNodes: sort the siblings, emit titled folders, recurse           *)
(***************************************************************************)
RECURSIVE InsertSortedReversesTies(_, _, _)
\* an insertion that puts x before the nodes it ties with
InsertSortedReversesTies(t, s, x) ==
    IF s = <<>> THEN <<x>>
    ELSE IF localeCompare(t.title[Head(s)], t.title[x]) < 0
         THEN <<Head(s)>> \o InsertSortedReversesTies(t, Tail(s), x)
         ELSE <<x>> \o s

RECURSIVE InsertSorted(_, _, _)
\* insert node x into the sorted list s after every node that does not
\* compare greater (Array.prototype.sort is stable)
InsertSorted(t, s, x) ==
    IF s = <<>> THEN <<x>>
    ELSE IF localeCompare(t.title[Head(s)], t.title[x]) <= 0
         THEN <<Head(s)>> \o InsertSorted(t, Tail(s), x)
         ELSE <<x>> \o s

\* a traversal that forgets to sort
SortedNodesUnsorted(t, nodes) == nodes

RECURSIVE SortedNodes(_, _)
\* nodes.sort((a, b) => (a.title || "").localeCompare(b.title || ""))
SortedNodes(t, nodes) ==
    IF nodes = <<>> THEN <<>>
    ELSE InsertSorted(t, SortedNodes(t, SubSeq(nodes, 1, Len(nodes) - 1)),
                      nodes[Len(nodes)])

\* is the node a folder with a title (!node.url && node.title)
IsTitledFolder(t, n) == t.url[n] = NoUrl /\ t.title[n] # <<>>

\* does the traversal descend into the children of node n
Descends(t, n) == IsTitledFolder(t, n) /\ t.children[n] # <<>>

RECURSIVE processNodes(_, _, _)
RECURSIVE ProcessSorted(_, _, _)
\* a loop that emits a folder after its descendants
ProcessSortedChildrenFirst(t, sorted, currentDepth) ==
    IF sorted = <<>> THEN <<>>
    ELSE LET node == Head(sorted)
             own  == IF IsTitledFolder(t, node)
                     THEN << [id |-> node, title |-> t.title[node],
                              depth |-> currentDepth] >>
                     ELSE <<>>
             below == IF Descends(t, node)
                      THEN processNodes(t, t.children[node], currentDepth + 1)
                      ELSE <<>>
         IN  below \o own \o ProcessSorted(t, Tail(sorted), currentDepth)

\* the for loop over the sorted nodes of one level
ProcessSorted(t, sorted, currentDepth) ==
    IF sorted = <<>> THEN <<>>
    ELSE LET node == Head(sorted)
             own  == IF IsTitledFolder(t, node)
                     THEN << [id |-> node, title |-> t.title[node],
                              depth |-> currentDepth] >>
                     ELSE <<>>
             below == IF Descends(t, node)
                      THEN processNodes(t, t.children[node], currentDepth + 1)
                      ELSE <<>>
         IN  own \o below \o ProcessSorted(t, Tail(sorted), currentDepth)

processNodes(t, nodes, currentDepth) ==
    ProcessSorted(t, SortedNodes(t, nodes), currentDepth)

\* the flat list of a fetched tree: traversal starts at the root's children
FlattenTree(t) == processNodes(t, t.children[RootId], 0)

(***************************************************************************)
(* State                                                                   *)
(***************************************************************************)
CACHE_DURATION_MS == 30 * 60 * 1000

\* the clock advances in steps of a third of the cache duration
TickMs == CACHE_DURATION_MS \div 3

\* Date.now() when the popup opens
StartNow == 2 * CACHE_DURATION_MS

\* the getFullFolderHierarchy calls that can be in progress together
Calls == {"c1", "c2"}

\* optional values: undefined / null, or a value
None == <<>>
Some(v) == <<v>>
Val(o) == o[1]

VARIABLES
    hostTree,               \* the host's bookmark tree (chrome.bookmarks)
    now,                    \* Date.now()
    localStore,             \* chrome.storage.local: the two cache keys
    globalFlatFolderList,   \* None (null) or Some(list)
    globalFolderTitleMap,   \* None (null) or Some(map id -> title)
    pc,                     \* where each call stands
    forceRefresh,           \* the argument of each call
    reply,                  \* the host's answer a call is about to resume with
    cachedData,             \* what getLocalStorageAsync resolved to
    bookmarkTreeNodes,      \* what getTreeAsync resolved to
    allFoldersFlatList,     \* the list processNodes filled
    pendingSet,             \* the argument of setLocalStorageAsync
    returned,               \* None, or Some(list) once the call has returned
    trace,                  \* per call: what it did with the host, and when
    bookmarkStore,          \* the host's bookmarks (url nodes), found by url
    nextBookmarkId,         \* the id the host gives the next bookmark
    syncStore,              \* chrome.storage.sync: the two preference keys
    tabs,                   \* the highlighted tabs; the first is the active one
    folderSelectValue,      \* the value of the folderSelect dropdown
    locOptions,             \* the enabled options of bookmarkFolderSelect
    locValue,               \* the value of bookmarkFolderSelect
    hasPopulatedBookmarkFolders,
    pendingEvents,          \* bookmark change events not yet delivered
    inv,                    \* the running button handlers and their locals
    search,                 \* the folder search and its results dropdown
    bulk,                   \* the running Open All / Delete All and its locals
    bg                      \* the keyboard shortcuts of the service worker

actionVars == << bookmarkStore, nextBookmarkId, syncStore, tabs,
                 folderSelectValue, locOptions, locValue,
                 hasPopulatedBookmarkFolders, pendingEvents, inv,
                 search, bulk, bg >>

vars == << hostTree, now, localStore, globalFlatFolderList,
           globalFolderTitleMap, pc, forceRefresh, reply, cachedData,
           bookmarkTreeNodes, allFoldersFlatList, pendingSet, returned, trace,
           actionVars >>

callVars == << pc, forceRefresh, reply, cachedData, bookmarkTreeNodes,
               allFoldersFlatList, pendingSet, returned, trace >>

globalVars == << globalFlatFolderList, globalFolderTitleMap >>

\* an empty local store: neither key is set
NoEntry == [cachedFolderHierarchy |-> None, cachedFolderTimestamp |-> None]

\* a write that forgets the timestamp key
EntryWithoutTimestamp(list, timestamp) ==
    [cachedFolderHierarchy |-> Some(list), cachedFolderTimestamp |-> None]

\* the record setLocalStorageAsync is called with (both keys at once)
Entry(list, timestamp) ==
    [cachedFolderHierarchy |-> Some(list), cachedFolderTimestamp |-> Some(timestamp)]

\* what a call has done so far: tree fetches issued, store writes issued,
\* store writes the host carried out, the host's answers to its three
\* requests, Date.now() when it checked the cache, and the calls that had
\* returned before it started
NoTrace == [getTree |-> 0, setIssued |-> 0, setDone |-> 0,
            localReply |-> "none", treeReply |-> "none", setReply |-> "none",
            checkedAt |-> 0, after |-> {}]

\* new Map(list.map(f => [f.id, f.title])): a later record of an id wins
TitleMapOf(list) ==
    [ i \in { list[k].id : k \in 1 .. Len(list) } |->
        LET last == CHOOSE k \in 1 .. Len(list) :
                        /\ list[k].id = i
                        /\ \A m \in 1 .. Len(list) : list[m].id = i => m <= k
        IN  list[last].title ]

\* the index built next to the list, on a cache hit and after a refresh
BuildIndex(list) == IF Len(list) > 0 THEN TitleMapOf(list) ELSE <<>>

\* the sample tree root -> [FolderA -> [FolderB]]
SampleTree ==
    [ title    |-> [n \in NodeIds |-> IF n = 1 THEN <<"a">>
                                      ELSE IF n = 2 THEN <<"b">> ELSE <<>>],
      url      |-> [n \in NodeIds |-> NoUrl],
      children |-> [n \in NodeIds |-> IF n = RootId THEN <<1>>
                                      ELSE IF n = 1 THEN <<2>> ELSE <<>>] ]

\* the cache entries an earlier popup session can have left behind
EarlierEntries ==
    { NoEntry,
      Entry(<< [id |-> 1, title |-> <<"a">>, depth |-> 0] >>, StartNow - TickMs),
      Entry(<< [id |-> 1, title |-> <<"a">>, depth |-> 0] >>,
            StartNow - CACHE_DURATION_MS) }

InitCalls ==
    /\ pc = [c \in Calls |-> "idle"]
    /\ forceRefresh = [c \in Calls |-> FALSE]
    /\ reply = [c \in Calls |-> "none"]
    /\ cachedData = [c \in Calls |-> NoEntry]
    /\ bookmarkTreeNodes = [c \in Calls |-> EmptyTree]
    /\ allFoldersFlatList = [c \in Calls |-> <<>>]
    /\ pendingSet = [c \in Calls |-> NoEntry]
    /\ returned = [c \in Calls |-> None]
    /\ trace = [c \in Calls |-> NoTrace]

\* the value "" of a select that shows only a disabled placeholder
NoFolder == -1

\* the locals of a button handler that has not been started
NoInv ==
    [ kind |-> "none", at |-> "idle", ret |-> "end",
      folderId |-> NoFolder, fromFolderId |-> NoFolder,
      tabsToProcess |-> <<>>, k |-> 0,
      successCount |-> 0, otherCount |-> 0, errorCount |-> 0,
      target |-> NoFolder, log |-> {}, msgs |-> <<>>,
      outcomes |-> <<>>, after |-> {} ]

Invs == {"i1", "i2"}

\* the folder search when the popup's search panel is left alone
NoSearch ==
    [ at |-> "off", foldersLoaded |-> FALSE, presses |-> 0, input |-> <<>>,
      folderId |-> NoFolder, searchTerm |-> <<>>, caller |-> "user",
      result |-> "none", shown |-> <<>>, bookmarksDetails |-> <<>>,
      msgs |-> <<>> ]

\* no bulk action is running
NoBulk ==
    [ at |-> "idle", presses |-> 0, isOpening |-> FALSE,
      bookmarksDetails |-> <<>>, k |-> 0, successCount |-> 0, opened |-> <<>>,
      attempts |-> <<>>, slot |-> "i1", msgs |-> <<>> ]

\* the shortcuts of the service worker are not used
NoShortcut ==
    [ at |-> "off", presses |-> 0, command |-> "none", defaultFolderId |-> <<>>,
      tabs |-> <<>>, pending |-> <<>>, asked |-> <<>>, created |-> {},
      removed |-> <<>>, rejected |-> 0, log |-> {} ]

\* no button is pressed: the popup only loads its folder hierarchy
NoButtons ==
    /\ bookmarkStore = {}
    /\ nextBookmarkId = MaxNodes + 1
    /\ syncStore = [defaultFolderId |-> None, lastBookmarkedFolderID |-> None]
    /\ tabs = <<>>
    /\ folderSelectValue = NoFolder
    /\ locOptions = <<>>
    /\ locValue = NoFolder
    /\ hasPopulatedBookmarkFolders = FALSE
    /\ pendingEvents = 0
    /\ inv = [i \in Invs |-> NoInv]
    /\ search = NoSearch
    /\ bulk = NoBulk
    /\ bg = NoShortcut

Init ==
    /\ hostTree = SampleTree
    /\ now = StartNow
    /\ localStore \in EarlierEntries
    /\ globalFlatFolderList = None
    /\ globalFolderTitleMap = None
    /\ InitCalls
    /\ NoButtons

(***************************************************************************)
(* The host: clock, bookmark tree, local store                             *)
(***************************************************************************)
\* time passes
Tick ==
    /\ now < StartNow + MaxTicks * TickMs
    /\ now' = now + TickMs
    /\ UNCHANGED << hostTree, localStore, globalVars, callVars >>

\* the tree t with a new node under folder p, appended after its siblings
WithNewChild(t, p, ti, u) ==
    LET n == Cardinality(Attached(t)) + 1
    IN  [ title    |-> [t.title EXCEPT ![n] = ti],
          url      |-> [t.url EXCEPT ![n] = u],
          children |-> [t.children EXCEPT ![p] = Append(@, n)] ]

\* the user (or another extension) creates a folder or a bookmark
HostCreate(p, ti, u) ==
    /\ Cardinality(Attached(hostTree)) < MaxNodes
    /\ p \in FolderIds(hostTree)
    /\ hostTree' = WithNewChild(hostTree, p, ti, u)
    /\ UNCHANGED << now, localStore, globalVars, callVars >>

\* the sequence s with its elements at i and i + 1 exchanged
SwapAt(s, i) ==
    [k \in 1 .. Len(s) |-> IF k = i THEN s[i + 1]
                           ELSE IF k = i + 1 THEN s[i] ELSE s[k]]

\* the user reorders two neighbouring children of folder p
HostReorder(p, i) ==
    /\ p \in FolderIds(hostTree)
    /\ i \in 1 .. Len(hostTree.children[p]) - 1
    /\ hostTree' = [hostTree EXCEPT !.children[p] = SwapAt(@, i)]
    /\ UNCHANGED << now, localStore, globalVars, callVars >>

\* chrome.storage.local.get answers call c: the two keys as stored, or an error
HostGetLocal(c) ==
    /\ pc[c] = "getLocal"
    /\ pc' = [pc EXCEPT ![c] = "gotLocal"]
    /\ \/ /\ reply' = [reply EXCEPT ![c] = "ok"]
          /\ cachedData' = [cachedData EXCEPT ![c] = localStore]
       \/ /\ reply' = [reply EXCEPT ![c] = "rejected"]
          /\ UNCHANGED cachedData
    /\ trace' = [trace EXCEPT ![c].localReply = reply'[c]]
    /\ UNCHANGED << hostTree, now, localStore, globalVars, forceRefresh,
                    bookmarkTreeNodes, allFoldersFlatList, pendingSet,
                    returned >>

\* chrome.bookmarks.getTree answers call c: the tree, nothing, or an error
HostGetTree(c) ==
    /\ pc[c] = "getTree"
    /\ pc' = [pc EXCEPT ![c] = "gotTree"]
    /\ \/ /\ reply' = [reply EXCEPT ![c] = "ok"]
          /\ bookmarkTreeNodes' = [bookmarkTreeNodes EXCEPT ![c] = hostTree]
       \/ /\ reply' \in { [reply EXCEPT ![c] = "empty"],
                          [reply EXCEPT ![c] = "rejected"] }
          /\ UNCHANGED bookmarkTreeNodes
    /\ trace' = [trace EXCEPT ![c].treeReply = reply'[c]]
    /\ UNCHANGED << hostTree, now, localStore, globalVars, forceRefresh,
                    cachedData, allFoldersFlatList, pendingSet, returned >>

\* a write of the two keys of which only the folder list arrives
HostSetLocalFoldersOnly(c) ==
    /\ pc[c] = "setLocal"
    /\ pc' = [pc EXCEPT ![c] = "didSet"]
    /\ \/ /\ reply' = [reply EXCEPT ![c] = "ok"]
          /\ localStore' = [localStore EXCEPT !.cachedFolderHierarchy =
                                pendingSet[c].cachedFolderHierarchy]
          /\ trace' = [trace EXCEPT ![c].setDone = @ + 1, ![c].setReply = "ok"]
       \/ /\ reply' = [reply EXCEPT ![c] = "rejected"]
          /\ trace' = [trace EXCEPT ![c].setReply = "rejected"]
          /\ UNCHANGED localStore
    /\ UNCHANGED << hostTree, now, globalVars, forceRefresh, cachedData,
                    bookmarkTreeNodes, allFoldersFlatList, pendingSet, returned >>

\* chrome.storage.local.set answers call c: both keys written, or an error
HostSetLocal(c) ==
    /\ pc[c] = "setLocal"
    /\ pc' = [pc EXCEPT ![c] = "didSet"]
    /\ \/ /\ reply' = [reply EXCEPT ![c] = "ok"]
          /\ localStore' = pendingSet[c]
          /\ trace' = [trace EXCEPT ![c].setDone = @ + 1, ![c].setReply = "ok"]
       \/ /\ reply' = [reply EXCEPT ![c] = "rejected"]
          /\ trace' = [trace EXCEPT ![c].setReply = "rejected"]
          /\ UNCHANGED localStore
    /\ UNCHANGED << hostTree, now, globalVars, forceRefresh, cachedData,
                    bookmarkTreeNodes, allFoldersFlatList, pendingSet, returned >>

(***************************************************************************)
(* getFullFolderHierarchy, one action per stretch between two awaits       *)
(***************************************************************************)
\* the validity test with the comparison turned around
CacheIsValidReversed(data, t) ==
    /\ data.cachedFolderHierarchy # None
    /\ data.cachedFolderTimestamp # None
    /\ Val(data.cachedFolderTimestamp) # 0
    /\ t - Val(data.cachedFolderTimestamp) > CACHE_DURATION_MS

\* the validity test with the boundary counted as valid
CacheIsValidInclusive(data, t) ==
    /\ data.cachedFolderHierarchy # None
    /\ data.cachedFolderTimestamp # None
    /\ Val(data.cachedFolderTimestamp) # 0
    /\ t - Val(data.cachedFolderTimestamp) <= CACHE_DURATION_MS

\* foldersFromCache && timestamp && (Date.now() - timestamp < CACHE_DURATION_MS)
CacheIsValid(data, t) ==
    /\ data.cachedFolderHierarchy # None
    /\ data.cachedFolderTimestamp # None
    /\ Val(data.cachedFolderTimestamp) # 0
    /\ t - Val(data.cachedFolderTimestamp) < CACHE_DURATION_MS

\* the call starts: a forced call goes to the tree fetch, the others read
\* the cache first
Call(c, force) ==
    /\ pc[c] = "idle"
    /\ forceRefresh' = [forceRefresh EXCEPT ![c] = force]
    /\ pc' = [pc EXCEPT ![c] = IF force THEN "getTree" ELSE "getLocal"]
    /\ trace' = [trace EXCEPT
                   ![c].after = { d \in Calls : pc[d] = "done" },
                   ![c].getTree = IF force THEN 1 ELSE 0]
    /\ UNCHANGED << hostTree, now, localStore, globalVars, reply, cachedData,
                    bookmarkTreeNodes, allFoldersFlatList, pendingSet, returned >>

\* the globals and the return value of the error and empty-tree paths
ReturnEmpty(c) ==
    /\ globalFlatFolderList' = Some(<<>>)
    /\ globalFolderTitleMap' = Some(<<>>)
    /\ returned' = [returned EXCEPT ![c] = Some(<<>>)]
    /\ pc' = [pc EXCEPT ![c] = "done"]

\* the held list replaced without rebuilding the index
ReturnListStaleIndex(c, list) ==
    /\ globalFlatFolderList' = Some(list)
    /\ UNCHANGED globalFolderTitleMap
    /\ returned' = [returned EXCEPT ![c] = Some(list)]
    /\ pc' = [pc EXCEPT ![c] = "done"]

\* the globals and the return value once list is the held list
ReturnList(c, list) ==
    /\ globalFlatFolderList' = Some(list)
    /\ globalFolderTitleMap' = Some(BuildIndex(list))
    /\ returned' = [returned EXCEPT ![c] = Some(list)]
    /\ pc' = [pc EXCEPT ![c] = "done"]

\* the call resumes after the cache read: a valid entry is returned, anything
\* else (no entry, expired entry, read error) goes on to the tree fetch
ResumeGetLocal(c) ==
    /\ pc[c] = "gotLocal"
    /\ reply' = [reply EXCEPT ![c] = "none"]
    /\ IF reply[c] = "ok" /\ CacheIsValid(cachedData[c], now)
       THEN /\ ReturnList(c, Val(cachedData[c].cachedFolderHierarchy))
            /\ trace' = [trace EXCEPT ![c].checkedAt = now]
       ELSE /\ pc' = [pc EXCEPT ![c] = "getTree"]
            /\ trace' = [trace EXCEPT ![c].checkedAt = now, ![c].getTree = @ + 1]
            /\ UNCHANGED << globalVars, returned >>
    /\ UNCHANGED << hostTree, now, localStore, forceRefresh, cachedData,
                    bookmarkTreeNodes, allFoldersFlatList, pendingSet >>

\* a refresh that caches the empty list of a failed fetch
ResumeGetTreeCachesFailure(c) ==
    /\ pc[c] = "gotTree"
    /\ reply' = [reply EXCEPT ![c] = "none"]
    /\ allFoldersFlatList' =
           [allFoldersFlatList EXCEPT ![c] =
               IF reply[c] = "ok" THEN FlattenTree(bookmarkTreeNodes[c]) ELSE <<>>]
    /\ pendingSet' = [pendingSet EXCEPT ![c] = Entry(allFoldersFlatList'[c], now)]
    /\ trace' = [trace EXCEPT ![c].setIssued = @ + 1]
    /\ pc' = [pc EXCEPT ![c] = "setLocal"]
    /\ UNCHANGED << globalVars, returned >>
    /\ UNCHANGED << hostTree, now, localStore, forceRefresh, cachedData,
                    bookmarkTreeNodes >>

\* the call resumes after the tree fetch: an error or an empty result returns
\* the empty list; a tree is flattened and the write of the cache is issued
ResumeGetTree(c) ==
    /\ pc[c] = "gotTree"
    /\ reply' = [reply EXCEPT ![c] = "none"]
    /\ IF reply[c] # "ok"
       THEN /\ ReturnEmpty(c)
            /\ UNCHANGED << allFoldersFlatList, pendingSet, trace >>
       ELSE /\ allFoldersFlatList' =
                   [allFoldersFlatList EXCEPT ![c] = FlattenTree(bookmarkTreeNodes[c])]
            /\ pendingSet' =
                   [pendingSet EXCEPT ![c] = Entry(allFoldersFlatList'[c], now)]
            /\ trace' = [trace EXCEPT ![c].setIssued = @ + 1]
            /\ pc' = [pc EXCEPT ![c] = "setLocal"]
            /\ UNCHANGED << globalVars, returned >>
    /\ UNCHANGED << hostTree, now, localStore, forceRefresh, cachedData,
                    bookmarkTreeNodes >>

\* the call resumes after the cache write: the fresh list becomes the held
\* list and is returned; a write error lands in the catch block
ResumeSetLocal(c) ==
    /\ pc[c] = "didSet"
    /\ reply' = [reply EXCEPT ![c] = "none"]
    /\ IF reply[c] = "ok"
       THEN ReturnList(c, allFoldersFlatList[c])
       ELSE ReturnEmpty(c)
    /\ UNCHANGED << hostTree, now, localStore, forceRefresh, cachedData,
                    bookmarkTreeNodes, allFoldersFlatList, pendingSet, trace >>

(***************************************************************************)
(* Specification of the hierarchy cache                                    *)
(***************************************************************************)
\* the one change of the host tree the cache is watched against: a folder
\* titled "A" appears at the top level
HostAddsFolder == HostCreate(RootId, <<"A">>, NoUrl)

Next ==
    \/ Tick /\ UNCHANGED actionVars
    \/ HostAddsFolder /\ UNCHANGED actionVars
    \/ \E c \in Calls, force \in BOOLEAN : Call(c, force) /\ UNCHANGED actionVars
    \/ \E c \in Calls : HostGetLocal(c) /\ UNCHANGED actionVars
    \/ \E c \in Calls : ResumeGetLocal(c) /\ UNCHANGED actionVars
    \/ \E c \in Calls : HostGetTree(c) /\ UNCHANGED actionVars
    \/ \E c \in Calls : ResumeGetTree(c) /\ UNCHANGED actionVars
    \/ \E c \in Calls : HostSetLocal(c) /\ UNCHANGED actionVars
    \/ \E c \in Calls : ResumeSetLocal(c) /\ UNCHANGED actionVars

Spec == Init /\ [][Next]_vars

(***************************************************************************)
(* Specification of the flattening: the host builds any tree within the    *)
(* bounds, then one forced refresh fetches and flattens it                 *)
(***************************************************************************)
FlattenInit ==
    /\ hostTree = EmptyTree
    /\ now = StartNow
    /\ localStore = NoEntry
    /\ globalFlatFolderList = None
    /\ globalFolderTitleMap = None
    /\ InitCalls
    /\ NoButtons

NoCallYet == \A c \in Calls : pc[c] = "idle"

FlattenNext ==
    \/ \E p \in NodeIds, ti \in Titles, u \in Urls \cup {NoUrl} :
          NoCallYet /\ HostCreate(p, ti, u) /\ UNCHANGED actionVars
    \/ \E p \in NodeIds, i \in 1 .. MaxNodes :
          NoCallYet /\ HostReorder(p, i) /\ UNCHANGED actionVars
    \/ NoCallYet /\ Call("c1", TRUE) /\ UNCHANGED actionVars
    \/ HostGetTree("c1") /\ UNCHANGED actionVars
    \/ ResumeGetTree("c1") /\ UNCHANGED actionVars

FlattenSpec == FlattenInit /\ [][FlattenNext]_vars

(***************************************************************************)
(* Properties of the hierarchy cache (checked under Spec)                  *)
(***************************************************************************)
\* call c is an unforced call that has made its cache check
AfterCheck(c) ==
    /\ pc[c] \notin {"idle", "getLocal", "gotLocal"}
    /\ ~forceRefresh[c]

\* the cache read of call c resolved to an entry with both keys
ReadEntry(c) ==
    /\ trace[c].localReply = "ok"
    /\ cachedData[c].cachedFolderHierarchy # None
    /\ cachedData[c].cachedFolderTimestamp # None

\* now - fetchedAt when call c made its check
EntryAge(c) == trace[c].checkedAt - Val(cachedData[c].cachedFolderTimestamp)

FreshAtCheck(c) == AfterCheck(c) /\ ReadEntry(c) /\ EntryAge(c) < CACHE_DURATION_MS

StaleAtCheck(c) == AfterCheck(c) /\ ReadEntry(c) /\ EntryAge(c) >= CACHE_DURATION_MS

\* C1: an unforced call that reads an entry younger than 30 minutes returns
\* exactly the stored list, issues no tree fetch and no cache write.
C1_CacheHit ==
    \A c \in Calls :
        FreshAtCheck(c) =>
            /\ pc[c] = "done"
            /\ returned[c] = cachedData[c].cachedFolderHierarchy
            /\ trace[c].getTree = 0
            /\ trace[c].setIssued = 0
            /\ trace[c].setDone = 0

C1_Witness ==
    \E c \in Calls :
        /\ FreshAtCheck(c)
        /\ pc[c] = "done"
        /\ Len(Val(returned[c])) > 0

\* C2 as claimed: an unforced call that reads an entry 30 minutes old or older
\* has, when it returns, fetched the tree and overwritten the stored entry.
C2_Original ==
    \A c \in Calls :
        (StaleAtCheck(c) /\ pc[c] = "done") =>
            /\ trace[c].getTree = 1
            /\ trace[c].setDone = 1

\* C2 amended: an unforced call that reads an entry 30 minutes old or older
\* (boundary included) always fetches the tree; when the fetch yields a tree
\* it issues the cache write, and when the host carries the write out the
\* stored entry becomes the flattening of the fetched tree with a timestamp
\* taken after the check.
C2_Expiry ==
    /\ [](\A c \in Calls :
            StaleAtCheck(c) =>
                /\ trace[c].getTree = 1
                /\ (pc[c] = "done" /\ trace[c].treeReply = "ok")
                      => trace[c].setIssued = 1)
    /\ [][\A c \in Calls :
            ( /\ StaleAtCheck(c)
              /\ pc[c] = "setLocal"
              /\ pc'[c] = "didSet"
              /\ trace'[c].setReply = "ok" )
            => /\ localStore'.cachedFolderHierarchy
                     = Some(FlattenTree(bookmarkTreeNodes[c]))
               /\ localStore'.cachedFolderTimestamp # None
               /\ Val(localStore'.cachedFolderTimestamp) >= trace[c].checkedAt
               /\ Val(localStore'.cachedFolderTimestamp) <= now']_vars

C2_Witness ==
    \E c \in Calls :
        /\ StaleAtCheck(c)
        /\ EntryAge(c) = CACHE_DURATION_MS
        /\ pc[c] = "done"
        /\ trace[c].setDone = 1
        /\ localStore.cachedFolderHierarchy = Some(FlattenTree(bookmarkTreeNodes[c]))
        /\ localStore # cachedData[c]

\* the distance of the cache checks of two calls
CheckDistance(c, d) ==
    IF trace[c].checkedAt >= trace[d].checkedAt
    THEN trace[c].checkedAt - trace[d].checkedAt
    ELSE trace[d].checkedAt - trace[c].checkedAt

\* two unforced calls have both returned
BothReturned(c, d) ==
    /\ c # d
    /\ pc[c] = "done" /\ pc[d] = "done"
    /\ ~forceRefresh[c] /\ ~forceRefresh[d]

\* C3 as claimed: two unforced calls within the TTL of each other perform
\* exactly one tree fetch in total.
C3_Original ==
    \A c, d \in Calls :
        (BothReturned(c, d) /\ CheckDistance(c, d) < CACHE_DURATION_MS)
            => trace[c].getTree + trace[d].getTree = 1

\* call c returned a list it read from a valid entry or fetched and stored
Succeeded(c) ==
    \/ FreshAtCheck(c)
    \/ trace[c].treeReply = "ok" /\ trace[c].setReply = "ok"

\* d started after c had returned, c succeeded, d's cache read was answered,
\* and d checked the cache within the TTL of c's check
SecondWithinTTL(c, d) ==
    /\ BothReturned(c, d)
    /\ c \in trace[d].after
    /\ Succeeded(c)
    /\ trace[d].localReply = "ok"
    /\ trace[d].checkedAt - trace[c].checkedAt < CACHE_DURATION_MS

\* C3 amended: for two unforced calls, the second started after the first
\* returned and checking the cache within the TTL of the first, with no other
\* call in between, the first having hit the cache or fetched and stored the
\* tree and the second's cache read having been answered: at most one tree
\* fetch is performed in total, and exactly one (by the first call, none by
\* the second) when the first call found no valid entry.
C3_Freshness ==
    \A c, d \in Calls :
        SecondWithinTTL(c, d) =>
            /\ trace[c].getTree + trace[d].getTree <= 1
            /\ ~FreshAtCheck(c) =>
                  (trace[c].getTree = 1 /\ trace[d].getTree = 0)

C3_Witness ==
    \E c, d \in Calls :
        /\ SecondWithinTTL(c, d)
        /\ trace[c].getTree = 1
        /\ trace[d].getTree = 0
        /\ trace[d].checkedAt > trace[c].checkedAt

\* C4: a call whose tree fetch was rejected or came back empty returns the
\* empty list and issues no cache write; its resumption leaves the store as
\* it was.
C4_RefreshFailure ==
    /\ [](\A c \in Calls :
            (pc[c] \in {"setLocal", "didSet", "done"}
               /\ trace[c].treeReply \in {"empty", "rejected"})
            => /\ pc[c] = "done"
               /\ returned[c] = Some(<<>>)
               /\ trace[c].setIssued = 0
               /\ trace[c].setDone = 0)
    /\ [][\A c \in Calls :
            (pc[c] = "gotTree" /\ reply[c] # "ok" /\ pc'[c] # "gotTree")
            => localStore' = localStore]_vars

C4_Witness ==
    \E c \in Calls :
        /\ pc[c] = "done"
        /\ trace[c].treeReply = "rejected"
        /\ returned[c] = Some(<<>>)
        /\ localStore # NoEntry

\* C5 as claimed: a call whose tree fetch yielded a tree returns the
\* flattening of that tree, whether or not the cache write succeeded.
C5_Original ==
    \A c \in Calls :
        (pc[c] = "done" /\ trace[c].treeReply = "ok")
            => returned[c] = Some(FlattenTree(bookmarkTreeNodes[c]))

\* the ids of the records of a list
IdsOf(list) == { list[k].id : k \in 1 .. Len(list) }

\* C10: between any two steps of any handler, the folder index is null
\* together with the list, or maps exactly the ids of the held list to
\* their titles.
C10_IndexConsistent ==
    \/ globalFlatFolderList = None /\ globalFolderTitleMap = None
    \/ /\ globalFlatFolderList # None
       /\ globalFolderTitleMap # None
       /\ DOMAIN Val(globalFolderTitleMap) = IdsOf(Val(globalFlatFolderList))
       /\ \A k \in 1 .. Len(Val(globalFlatFolderList)) :
             Val(globalFolderTitleMap)[Val(globalFlatFolderList)[k].id]
                = Val(globalFlatFolderList)[k].title

C10_Witness ==
    /\ globalFlatFolderList # None
    /\ Len(Val(globalFlatFolderList)) >= 2
    /\ \E c \in Calls : pc[c] = "done" /\ FreshAtCheck(c)

\* the entry call c wrote: the flattening of the tree it fetched, stamped
\* between its start and now
WrittenBy(c) ==
    /\ trace[c].setDone = 1
    /\ trace[c].treeReply = "ok"
    /\ localStore.cachedFolderHierarchy = Some(FlattenTree(bookmarkTreeNodes[c]))
    /\ localStore.cachedFolderTimestamp = pendingSet[c].cachedFolderTimestamp
    /\ localStore.cachedFolderTimestamp # None
    /\ Val(localStore.cachedFolderTimestamp) >= StartNow
    /\ Val(localStore.cachedFolderTimestamp) <= now

\* C11: under any interleaving of the calls, forced or not, the cache store
\* is empty, or still holds the entry of an earlier session, or holds the
\* list and the timestamp one single call wrote together, the list being
\* the flattening of the tree that call fetched.
C11_NoMixedEntry ==
    \/ localStore \in EarlierEntries
    \/ \E c \in Calls : WrittenBy(c)

C11_Witness ==
    /\ \A c \in Calls : trace[c].setDone = 1 /\ pc[c] = "done"
    /\ \E c, d \in Calls :
          /\ WrittenBy(c)
          /\ pendingSet[d] # pendingSet[c]
          /\ bookmarkTreeNodes[d] # bookmarkTreeNodes[c]
          /\ trace[d].getTree = 1 /\ forceRefresh[d]

(***************************************************************************)
(* Properties of the flattening (checked under FlattenSpec)                *)
(***************************************************************************)
\* the forced refresh has flattened the tree it fetched
Flattened == pc["c1"] = "setLocal"

FetchedTree == bookmarkTreeNodes["c1"]

FlatList == allFoldersFlatList["c1"]

RECURSIVE DepthOf(_, _)
\* the depth of an attached node: the children of the root have depth 0
DepthOf(t, n) ==
    IF ParentOf(t, n) = RootId THEN 0 ELSE 1 + DepthOf(t, ParentOf(t, n))

\* the positions of the records of node n in a list
PositionsOf(list, n) == { k \in 1 .. Len(list) : list[k].id = n }

\* C6 as claimed: every url-less node with a non-empty title below the root
\* has exactly one record, with its id, title and depth, also when an
\* ancestor has an empty title; the root and url nodes have none.
C6_Original ==
    Flattened =>
        /\ \A n \in Attached(FetchedTree) :
              (FetchedTree.url[n] = NoUrl /\ FetchedTree.title[n] # <<>>)
              => /\ Cardinality(PositionsOf(FlatList, n)) = 1
                 /\ \A k \in PositionsOf(FlatList, n) :
                       /\ FlatList[k].title = FetchedTree.title[n]
                       /\ FlatList[k].depth = DepthOf(FetchedTree, n)
        /\ \A k \in 1 .. Len(FlatList) :
              /\ FlatList[k].id # RootId
              /\ FetchedTree.url[FlatList[k].id] = NoUrl

\* two distinct children of one node that both have a record in the list
ListedSiblings(t, list, a, b) ==
    /\ a # b
    /\ a \in IdsOf(list) /\ b \in IdsOf(list)
    /\ \E p \in NodeIds : a \in Range(t.children[p]) /\ b \in Range(t.children[p])

\* the record of a comes before the record of b
Precedes(list, a, b) ==
    \E i, j \in 1 .. Len(list) : list[i].id = a /\ list[j].id = b /\ i < j

\* a comes before b among the children the host returned
HostPrecedes(t, a, b) ==
    \E p \in NodeIds : \E i, j \in 1 .. Len(t.children[p]) :
        t.children[p][i] = a /\ t.children[p][j] = b /\ i < j

\* C7 as claimed: of two listed siblings, A precedes B exactly when
\* title(A).localeCompare(title(B)) <= 0, equal titles included.
C7_Original ==
    Flattened =>
        \A a, b \in NodeIds :
            ListedSiblings(FetchedTree, FlatList, a, b) =>
                ( Precedes(FlatList, a, b)
                  <=> localeCompare(FetchedTree.title[a], FetchedTree.title[b]) <= 0 )

\* C7 amended: of two listed siblings, A precedes B exactly when title(A)
\* compares less than title(B), or the titles compare equal and A comes
\* before B in the children the host returned (the comparison ranks letters
\* first and puts a lowercase letter before its uppercase).
C7_SiblingOrder ==
    Flattened =>
        \A a, b \in NodeIds :
            ListedSiblings(FetchedTree, FlatList, a, b) =>
                ( Precedes(FlatList, a, b)
                  <=> \/ localeCompare(FetchedTree.title[a], FetchedTree.title[b]) < 0
                      \/ /\ localeCompare(FetchedTree.title[a], FetchedTree.title[b]) = 0
                         /\ HostPrecedes(FetchedTree, a, b) )

C7_Witness ==
    /\ Flattened
    /\ \E a, b \in NodeIds :
          /\ ListedSiblings(FetchedTree, FlatList, a, b)
          /\ FetchedTree.title[a] = FetchedTree.title[b]
          /\ a > b
          /\ Precedes(FlatList, a, b)
    /\ \E a, b \in NodeIds :
          /\ ListedSiblings(FetchedTree, FlatList, a, b)
          /\ FetchedTree.title[a] = <<"a">> /\ FetchedTree.title[b] = <<"A">>
          /\ HostPrecedes(FetchedTree, b, a)

\* u is t with the children lists of some nodes permuted
PermutedCopy(t, u) ==
    /\ u # t
    /\ u.title = t.title
    /\ u.url = t.url
    /\ \A n \in NodeIds :
          /\ Len(u.children[n]) = Len(t.children[n])
          /\ Range(u.children[n]) = Range(t.children[n])

\* C8 as claimed: a tree and any copy of it with permuted children lists
\* flatten to the same list.
C8_Original ==
    [][PermutedCopy(hostTree, hostTree')
          => FlattenTree(hostTree') = FlattenTree(hostTree)]_vars

\* no two titled folders under one parent have titles that compare equal
DistinctSiblingTitles(t) ==
    \A p \in NodeIds : \A i, j \in 1 .. Len(t.children[p]) :
        ( /\ i # j
          /\ IsTitledFolder(t, t.children[p][i])
          /\ IsTitledFolder(t, t.children[p][j]) )
        => localeCompare(t.title[t.children[p][i]], t.title[t.children[p][j]]) # 0

\* C8 amended: a tree in which no two sibling folders have titles that
\* compare equal, and any copy of it with permuted children lists, flatten
\* to the same list.
C8_OrderIndependence ==
    [][(PermutedCopy(hostTree, hostTree') /\ DistinctSiblingTitles(hostTree))
          => FlattenTree(hostTree') = FlattenTree(hostTree)]_vars

C8_Witness ==
    /\ Flattened
    /\ FetchedTree = hostTree
    /\ DistinctSiblingTitles(hostTree)
    /\ \E p \in NodeIds :
          /\ Len(hostTree.children[p]) >= 2
          /\ hostTree.children[p][1] > hostTree.children[p][2]
          /\ IsTitledFolder(hostTree, hostTree.children[p][1])
          /\ IsTitledFolder(hostTree, hostTree.children[p][2])
          /\ hostTree.children[p][1] \in IdsOf(FlatList)
          /\ hostTree.children[p][2] \in IdsOf(FlatList)

\* C9: in a freshly flattened list the ids are pairwise distinct, the first
\* record has depth 0, a record is at most one level deeper than the record
\* before it, and a record of depth d > 0 comes after the record of its
\* parent, of depth d - 1, with no record of a depth below d in between.
C9_SnapshotShape ==
    Flattened =>
        /\ \A i, j \in 1 .. Len(FlatList) :
              FlatList[i].id = FlatList[j].id => i = j
        /\ Len(FlatList) > 0 => FlatList[1].depth = 0
        /\ \A i \in 2 .. Len(FlatList) :
              FlatList[i].depth <= FlatList[i - 1].depth + 1
        /\ \A i \in 1 .. Len(FlatList) :
              FlatList[i].depth > 0 =>
                  \E j \in 1 .. i - 1 :
                      /\ FlatList[j].id = ParentOf(FetchedTree, FlatList[i].id)
                      /\ FlatList[j].depth = FlatList[i].depth - 1
                      /\ \A m \in j + 1 .. i - 1 :
                            FlatList[m].depth >= FlatList[i].depth

C9_Witness ==
    /\ Flattened
    /\ Len(FlatList) = 3
    /\ FlatList[1].depth = 0
    /\ FlatList[2].depth = 1
    /\ FlatList[3].depth \in {0, 2}

(***************************************************************************)
(* The popup's buttons: tabs, bookmarks and the two dropdowns              *)
(***************************************************************************)
\* A url is its scheme followed by the rest; <<>> is a tab without a url.
UrlA == <<"http:", "a">>
UrlB == <<"https:", "b">>
UrlChrome == <<"chrome:", "c">>
NoTabUrl == <<>>

\* String.prototype.startsWith on the scheme of a url
startsWith(u, prefix) == Len(u) > 0 /\ u[1] = prefix

\* the test Save and the locations view make before they bookmark a tab
IsWebUrl(u) == u # NoTabUrl /\ (startsWith(u, "http:") \/ startsWith(u, "https:"))

Tab(u, ti) == [url |-> u, title |-> ti]

\* the highlighted tabs a session can have; the first one is the active tab
TabSets ==
    { <<>>,
      << Tab(UrlA, <<>>), Tab(UrlChrome, <<"t">>) >>,
      << Tab(NoTabUrl, <<"t">>), Tab(UrlB, <<"t">>) >> }

\* a bookmark of the host: a node with a url
Bookmark(id, u, p, ti) == [id |-> id, url |-> u, parentId |-> p, title |-> ti]

FirstBookmarkId == MaxNodes + 1

\* the bookmarks the user can have made before the popup opens
EarlierBookmarks ==
    { {}, { Bookmark(FirstBookmarkId, UrlA, 1, <<"t">>) } }

\* chrome.bookmarks.search({url}): the bookmarks with exactly this url
searchBookmarks(store, u) == { b \in store : b.url = u }

\* showFeedback: the message replaces the one on display
Msg(text, isError) == [text |-> text, isError |-> isError]
showFeedback(r, text, isError) == [r EXCEPT !.msgs = Append(@, Msg(text, isError))]

\* the handler calls the host and waits for the answer at `at`
Issue(r, at, call) == [r EXCEPT !.at = at, !.log = @ \cup {call}]

\* the handler returns
Finish(r) == [r EXCEPT !.at = "done"]

\* The part of the popup a synchronous stretch of a handler reads and writes:
\* its locals r, the staleness flag and the locations dropdown.
Here(i) ==
    [ r |-> inv[i], flag |-> hasPopulatedBookmarkFolders,
      opts |-> locOptions, val |-> locValue ]

\* the locals of a handler that starts now
Started(kind) ==
    [NoInv EXCEPT !.kind = kind,
                  !.after = { j \in Invs : inv[j].at = "done" }]

(***************************************************************************)
(* Synchronous stretches shared by the handlers                            *)
(***************************************************************************)
\* deleteBookmark after Step 1: the source selection, then the tab query
ValidateDelete(w) ==
    IF w.val = NoFolder
    THEN [w EXCEPT !.r = Finish(showFeedback(@, "No valid folder selected to delete from.", TRUE))]
    ELSE [w EXCEPT !.r = Issue([@ EXCEPT !.fromFolderId = w.val], "tabs", "tabs.query")]

\* a validation that lets a Move into the source folder through
ValidateMoveIntoSource(w) ==
    IF w.val = NoFolder
    THEN [w EXCEPT !.r = Finish(showFeedback(@, "No valid 'from' folder selected.", TRUE))]
    ELSE IF folderSelectValue = NoFolder
    THEN [w EXCEPT !.r = Finish(showFeedback(@, "No valid 'to' folder selected.", TRUE))]
    ELSE [w EXCEPT !.r = Issue([@ EXCEPT !.fromFolderId = w.val,
                                         !.folderId = folderSelectValue],
                               "tabs", "tabs.query")]

\* moveBookmark Steps 2 and 3: both selections, the same-folder test, the
\* tab query
ValidateMove(w) ==
    IF w.val = NoFolder
    THEN [w EXCEPT !.r = Finish(showFeedback(@, "No valid 'from' folder selected.", TRUE))]
    ELSE IF folderSelectValue = NoFolder
    THEN [w EXCEPT !.r = Finish(showFeedback(@, "No valid 'to' folder selected.", TRUE))]
    ELSE IF w.val = folderSelectValue
    THEN [w EXCEPT !.r = Finish(showFeedback(@, "Source and destination are same.", FALSE))]
    ELSE [w EXCEPT !.r = Issue([@ EXCEPT !.fromFolderId = w.val,
                                         !.folderId = folderSelectValue],
                               "tabs", "tabs.query")]

Validate(w) == IF w.r.kind = "delete" THEN ValidateDelete(w) ELSE ValidateMove(w)

\* what the caller of populateBookmarkFolderOptions does when it returns
Continue(w, ret) ==
    IF ret = "end" THEN [w EXCEPT !.r = Finish(@)]
    ELSE IF ret = "checkEmpty" /\ w.opts = <<>>
    THEN [w EXCEPT !.r = Finish(showFeedback(@, "Cannot determine folder; it's empty.", TRUE))]
    ELSE Validate(w)

\* populateBookmarkFolderOptions up to its first await
StartPopulate(w, forceRepopulate, ret) ==
    IF w.flag /\ ~forceRepopulate THEN Continue(w, ret)
    ELSE LET loading == [w EXCEPT !.flag = FALSE, !.opts = <<>>, !.val = NoFolder,
                                  !.r.ret = ret]
         IN  IF globalFolderTitleMap = None
             THEN [loading EXCEPT !.r = Issue(@, "popHier", "populate:local.get")]
             ELSE [loading EXCEPT !.r = Issue(@, "popTabs", "populate:tabs.query")]

\* populateBookmarkFolderOptions returns to its caller
PopReturn(w) == Continue(w, w.r.ret)

\* the catch block of populateBookmarkFolderOptions
PopCatch(w) ==
    PopReturn([w EXCEPT !.opts = <<>>, !.val = NoFolder, !.flag = FALSE,
                        !.r = showFeedback(@, "Error populating bookmark's saved folders.", TRUE)])

\* can the handler of this kind work on a tab with this url
TabOk(kind, u) == IF kind = "save" THEN IsWebUrl(u) ELSE u # NoTabUrl

RECURSIVE Advance(_)
\* the for loop moves on: tabs it cannot work on are counted as failed, the
\* first one it can work on is looked up
Advance(r) ==
    LET k == r.k + 1
    IN  IF k > Len(r.tabsToProcess) THEN [r EXCEPT !.k = k, !.at = "tally"]
        ELSE IF TabOk(r.kind, r.tabsToProcess[k].url)
        THEN Issue([r EXCEPT !.k = k], "search", "bookmarks.search")
        ELSE Advance([r EXCEPT !.k = k, !.errorCount = @ + 1,
                               !.outcomes = Append(@, "skipped")])

\* a Save that records the target folder whatever the loop did
TallyAlwaysRecords(w) ==
    LET r1 == showFeedback(w.r, "tally", w.r.errorCount > 0 /\ w.r.successCount = 0)
    IN  IF r1.kind = "save"
        THEN [w EXCEPT !.r = Issue(r1, "setLast", "sync.set")]
        ELSE StartPopulate([w EXCEPT !.r = r1], TRUE, "end")

\* after the loop: the tally message, the last-used folder, the final populate
Tally(w) ==
    LET r1 == showFeedback(w.r, "tally", w.r.errorCount > 0 /\ w.r.successCount = 0)
    IN  IF r1.kind = "save" /\ r1.successCount > 0
        THEN [w EXCEPT !.r = Issue(r1, "setLast", "sync.set")]
        ELSE StartPopulate([w EXCEPT !.r = r1], TRUE, "end")

\* the loop body has finished with the current tab
AfterTab(w) ==
    LET r1 == Advance(w.r)
    IN  IF r1.at = "tally" THEN Tally([w EXCEPT !.r = r1]) ELSE [w EXCEPT !.r = r1]

\* the current tab of the loop
CurrentTab(r) == r.tabsToProcess[r.k]

\* the hierarchy call a handler makes when the folder index is missing
CallOf(i) == IF i = "i1" THEN "c1" ELSE "c2"

\* the stretch ends: write back the locals, the flag and the dropdown, and
\* start the hierarchy call if the stretch asked for it
Apply(i, w) ==
    /\ inv' = [inv EXCEPT ![i] = w.r]
    /\ hasPopulatedBookmarkFolders' = w.flag
    /\ locOptions' = w.opts
    /\ locValue' = w.val
    /\ IF w.r.at = "popHier" /\ inv[i].at # "popHier"
       THEN Call(CallOf(i), FALSE)
       ELSE UNCHANGED << hostTree, now, localStore, globalVars, callVars >>

hostVars == << bookmarkStore, nextBookmarkId, syncStore, pendingEvents >>

panelVars == << search, bulk, bg >>

(***************************************************************************)
(* The handlers, one action per stretch between two awaits                 *)
(***************************************************************************)
\* a Save that does not look at the selection before it queries the tabs
saveBookmarkUnchecked(i) ==
    /\ inv[i].kind = "none"
    /\ LET r0 == Started("save")
           r1 == Issue([r0 EXCEPT !.folderId = folderSelectValue],
                       "tabs", "tabs.query")
       IN  Apply(i, [Here(i) EXCEPT !.r = r1])
    /\ UNCHANGED << hostVars, tabs, folderSelectValue >>

\* the Save button: validation of the target, then the tab query
saveBookmark(i) ==
    /\ inv[i].kind = "none"
    /\ LET r0 == Started("save")
           r1 == IF folderSelectValue = NoFolder
                 THEN Finish(showFeedback(r0, "No valid folder selected to save to.", TRUE))
                 ELSE Issue([r0 EXCEPT !.folderId = folderSelectValue],
                            "tabs", "tabs.query")
       IN  Apply(i, [Here(i) EXCEPT !.r = r1])
    /\ UNCHANGED << hostVars, tabs, folderSelectValue >>

\* the Set Default button: validation, then the write of defaultFolderId
setDefaultFolder(i) ==
    /\ inv[i].kind = "none"
    /\ LET r0 == Started("setDefault")
           r1 == IF folderSelectValue = NoFolder
                 THEN Finish(showFeedback(r0, "No valid folder selected as default.", TRUE))
                 ELSE Issue([r0 EXCEPT !.folderId = folderSelectValue],
                            "defSet", "sync.set")
       IN  Apply(i, [Here(i) EXCEPT !.r = r1])
    /\ UNCHANGED << hostVars, tabs, folderSelectValue >>

\* Step 1 of Delete and Move: re-populate an empty or stale locations
\* dropdown, then validate
EnsureLocations(w) ==
    IF w.opts = <<>> THEN StartPopulate(w, TRUE, "checkEmpty")
    ELSE IF ~w.flag THEN StartPopulate(w, TRUE, "validate")
    ELSE Validate(w)

\* the Delete button
deleteBookmark(i) ==
    /\ inv[i].kind = "none"
    /\ Apply(i, EnsureLocations([Here(i) EXCEPT !.r = Started("delete")]))
    /\ UNCHANGED << hostVars, tabs, folderSelectValue >>

\* the Move button
moveBookmark(i) ==
    /\ inv[i].kind = "none"
    /\ Apply(i, EnsureLocations([Here(i) EXCEPT !.r = Started("move")]))
    /\ UNCHANGED << hostVars, tabs, folderSelectValue >>

\* the locations dropdown gets the focus (bkmOptionMonitor) or is refreshed
populateBookmarkFolderOptions(i, forceRepopulate) ==
    /\ inv[i].kind = "none"
    /\ Apply(i, StartPopulate([Here(i) EXCEPT !.r = Started("populate")],
                              forceRepopulate, "end"))
    /\ UNCHANGED << hostVars, tabs, folderSelectValue >>

\* a resumption that reads the two dropdowns again
TabsReplyReadsAgain(i, ok) ==
    /\ inv[i].at = "tabs"
    /\ LET here == Here(i)
           w == [here EXCEPT
                   !.r.folderId = IF here.r.kind \in {"save", "move"}
                                  THEN folderSelectValue ELSE @,
                   !.r.fromFolderId = IF here.r.kind \in {"delete", "move"}
                                      THEN locValue ELSE @]
       IN  IF ~ok
           THEN Apply(i, [w EXCEPT !.r = Finish(showFeedback(@, "Error during batch process.", TRUE))])
           ELSE IF tabs = <<>>
           THEN Apply(i, [w EXCEPT !.r = Finish(showFeedback(@, "No highlighted tabs found.", TRUE))])
           ELSE Apply(i, AfterTab([w EXCEPT !.r.tabsToProcess = tabs]))
    /\ UNCHANGED << hostVars, tabs, folderSelectValue >>

\* chrome.tabs.query({highlighted}) answers Save, Delete or Move
TabsReply(i, ok) ==
    /\ inv[i].at = "tabs"
    /\ LET w == Here(i)
       IN  IF ~ok
           THEN Apply(i, [w EXCEPT !.r = Finish(showFeedback(@, "Error during batch process.", TRUE))])
           ELSE IF tabs = <<>>
           THEN Apply(i, [w EXCEPT !.r = Finish(showFeedback(@, "No highlighted tabs found.", TRUE))])
           ELSE Apply(i, AfterTab([w EXCEPT !.r.tabsToProcess = tabs]))
    /\ UNCHANGED << hostVars, tabs, folderSelectValue >>

\* the loop is done with the current tab: a create, remove or move carried
\* out is a success, a tab already saved or not found has its own count, and
\* whatever the host rejected (recorded with the host's message when it has
\* one) is an error
Counted(w, outcome) ==
    AfterTab([w EXCEPT
                !.r.outcomes = Append(@, outcome),
                !.r.errorCount = IF outcome \in {"exists", "notFound", "done"}
                                 THEN @ ELSE @ + 1,
                !.r.otherCount = IF outcome \in {"exists", "notFound"} THEN @ + 1 ELSE @,
                !.r.successCount = IF outcome = "done" THEN @ + 1 ELSE @])

\* a lookup that takes a bookmark of the url in any folder as present
SaveSearchReplyAnyFolder(i, ok) ==
    /\ inv[i].kind = "save" /\ inv[i].at = "search"
    /\ LET w == Here(i)
           existingBookmarksForUrl == searchBookmarks(bookmarkStore, CurrentTab(w.r).url)
           alreadyExistsInTargetFolder == existingBookmarksForUrl # {}
       IN  IF ~ok THEN Apply(i, Counted(w, "lookupFailed"))
           ELSE IF alreadyExistsInTargetFolder THEN Apply(i, Counted(w, "exists"))
           ELSE Apply(i, [w EXCEPT !.r = Issue(@, "mutate", "bookmarks.create")])
    /\ UNCHANGED << hostVars, tabs, folderSelectValue >>

\* chrome.bookmarks.search({url}) answers the loop of Save
SaveSearchReply(i, ok) ==
    /\ inv[i].kind = "save" /\ inv[i].at = "search"
    /\ LET w == Here(i)
           existingBookmarksForUrl == searchBookmarks(bookmarkStore, CurrentTab(w.r).url)
           alreadyExistsInTargetFolder ==
               \E bm \in existingBookmarksForUrl : bm.parentId = w.r.folderId
       IN  IF ~ok THEN Apply(i, Counted(w, "lookupFailed"))
           ELSE IF alreadyExistsInTargetFolder THEN Apply(i, Counted(w, "exists"))
           ELSE Apply(i, [w EXCEPT !.r = Issue(@, "mutate", "bookmarks.create")])
    /\ UNCHANGED << hostVars, tabs, folderSelectValue >>

\* a locator that takes a bookmark of the url in whatever folder it is
LocateReplyAnyFolder(i, ok) ==
    /\ inv[i].kind \in {"delete", "move"} /\ inv[i].at = "search"
    /\ LET w == Here(i)
           existingBookmarksForUrl == searchBookmarks(bookmarkStore, CurrentTab(w.r).url)
           matches == existingBookmarksForUrl
       IN  IF ~ok THEN Apply(i, Counted(w, "lookupFailed"))
           ELSE IF matches = {} THEN Apply(i, Counted(w, "notFound"))
           ELSE \E b \in matches :
                  Apply(i, [w EXCEPT !.r = Issue([@ EXCEPT !.target = b.id], "mutate",
                                                 IF w.r.kind = "delete"
                                                 THEN "bookmarks.remove"
                                                 ELSE "bookmarks.move")])
    /\ UNCHANGED << hostVars, tabs, folderSelectValue >>

\* chrome.bookmarks.search({url}) answers the loop of Delete or Move; find()
\* takes the first match in the order the host lists them
LocateReply(i, ok) ==
    /\ inv[i].kind \in {"delete", "move"} /\ inv[i].at = "search"
    /\ LET w == Here(i)
           existingBookmarksForUrl == searchBookmarks(bookmarkStore, CurrentTab(w.r).url)
           matches == { b \in existingBookmarksForUrl : b.parentId = w.r.fromFolderId }
       IN  IF ~ok THEN Apply(i, Counted(w, "lookupFailed"))
           ELSE IF matches = {} THEN Apply(i, Counted(w, "notFound"))
           ELSE \E b \in matches :
                  Apply(i, [w EXCEPT !.r = Issue([@ EXCEPT !.target = b.id], "mutate",
                                                 IF w.r.kind = "delete"
                                                 THEN "bookmarks.remove"
                                                 ELSE "bookmarks.move")])
    /\ UNCHANGED << hostVars, tabs, folderSelectValue >>

\* the reasons chrome.bookmarks.move gives when it rejects a move
MoveErrors == { "Can't move node into its own child.",
                "Can't modify the root bookmark folders.",
                "Can't find bookmark for id." }

\* a host that files every new bookmark under the root
CreateReplyUnderRoot(i, ok) ==
    /\ inv[i].kind = "save" /\ inv[i].at = "mutate"
    /\ LET w == Here(i)
           currentTab == CurrentTab(w.r)
           created == Bookmark(nextBookmarkId, currentTab.url, RootId,
                               IF currentTab.title # <<>> THEN currentTab.title
                               ELSE currentTab.url)
       IN  IF ok
           THEN /\ bookmarkStore' = bookmarkStore \cup {created}
                /\ nextBookmarkId' = nextBookmarkId + 1
                /\ pendingEvents' = pendingEvents + 1
                /\ Apply(i, Counted(w, "done"))
           ELSE /\ UNCHANGED << bookmarkStore, nextBookmarkId, pendingEvents >>
                /\ Apply(i, Counted(w, "failed"))
    /\ UNCHANGED << syncStore, tabs, folderSelectValue >>

\* chrome.bookmarks.create answers Save
CreateReply(i, ok) ==
    /\ inv[i].kind = "save" /\ inv[i].at = "mutate"
    /\ LET w == Here(i)
           currentTab == CurrentTab(w.r)
           created == Bookmark(nextBookmarkId, currentTab.url, w.r.folderId,
                               IF currentTab.title # <<>> THEN currentTab.title
                               ELSE currentTab.url)
       IN  IF ok
           THEN /\ bookmarkStore' = bookmarkStore \cup {created}
                /\ nextBookmarkId' = nextBookmarkId + 1
                /\ pendingEvents' = pendingEvents + 1
                /\ Apply(i, Counted(w, "done"))
           ELSE /\ UNCHANGED << bookmarkStore, nextBookmarkId, pendingEvents >>
                /\ Apply(i, Counted(w, "failed"))
    /\ UNCHANGED << syncStore, tabs, folderSelectValue >>

\* chrome.bookmarks.remove answers Delete; the host cannot remove a bookmark
\* that is gone
RemoveReply(i, ok) ==
    /\ inv[i].kind = "delete" /\ inv[i].at = "mutate"
    /\ ok => \E b \in bookmarkStore : b.id = inv[i].target
    /\ LET w == Here(i)
       IN  IF ok
           THEN /\ bookmarkStore' = { b \in bookmarkStore : b.id # w.r.target }
                /\ pendingEvents' = pendingEvents + 1
                /\ Apply(i, Counted(w, "done"))
           ELSE /\ UNCHANGED << bookmarkStore, pendingEvents >>
                /\ Apply(i, Counted(w, "failed"))
    /\ UNCHANGED << nextBookmarkId, syncStore, tabs, folderSelectValue >>

\* chrome.bookmarks.move reparents the bookmark
Reparented(store, id, parentId) ==
    { IF b.id = id THEN [b EXCEPT !.parentId = parentId] ELSE b : b \in store }

\* the catch block of the loop of Move
MoveCatch(w, message) ==
    IF message = "Can't move node into its own child."
    THEN Counted([w EXCEPT !.r = showFeedback(@, "Cannot move into its own subfolder.", TRUE)],
                 message)
    ELSE Counted(w, message)

\* chrome.bookmarks.move answers Move, with the host's message when it rejects
MoveReply(i, ok, message) ==
    /\ inv[i].kind = "move" /\ inv[i].at = "mutate"
    /\ ok => \E b \in bookmarkStore : b.id = inv[i].target
    /\ LET w == Here(i)
       IN  IF ok
           THEN /\ bookmarkStore' = Reparented(bookmarkStore, w.r.target, w.r.folderId)
                /\ pendingEvents' = pendingEvents + 1
                /\ Apply(i, Counted(w, "done"))
           ELSE /\ UNCHANGED << bookmarkStore, pendingEvents >>
                /\ Apply(i, MoveCatch(w, message))
    /\ UNCHANGED << nextBookmarkId, syncStore, tabs, folderSelectValue >>

\* chrome.storage.sync.set({lastBookmarkedFolderID}) answers Save
SetLastReply(i, ok) ==
    /\ inv[i].at = "setLast"
    /\ LET w == Here(i)
       IN  IF ok
           THEN /\ syncStore' = [syncStore EXCEPT
                                   !.lastBookmarkedFolderID = Some(w.r.folderId)]
                /\ Apply(i, StartPopulate(w, TRUE, "end"))
           ELSE /\ UNCHANGED syncStore
                /\ Apply(i, [w EXCEPT !.r = Finish(showFeedback(@, "Error saving bookmarks.", TRUE))])
    /\ UNCHANGED << bookmarkStore, nextBookmarkId, pendingEvents, tabs,
                    folderSelectValue >>

\* a Set Default that also records the folder as the last one used
DefSetReplyAlsoLast(i, ok) ==
    /\ inv[i].at = "defSet"
    /\ LET w == Here(i)
       IN  IF ok
           THEN /\ syncStore' = [defaultFolderId |-> Some(w.r.folderId),
                                 lastBookmarkedFolderID |-> Some(w.r.folderId)]
                /\ Apply(i, [w EXCEPT !.r = Finish(showFeedback(@, "is now default.", FALSE))])
           ELSE /\ UNCHANGED syncStore
                /\ Apply(i, [w EXCEPT !.r = Finish(showFeedback(@, "Error setting default.", TRUE))])
    /\ UNCHANGED << bookmarkStore, nextBookmarkId, pendingEvents, tabs,
                    folderSelectValue >>

\* chrome.storage.sync.set({defaultFolderId}) answers Set Default
DefSetReply(i, ok) ==
    /\ inv[i].at = "defSet"
    /\ LET w == Here(i)
       IN  IF ok
           THEN /\ syncStore' = [syncStore EXCEPT !.defaultFolderId = Some(w.r.folderId)]
                /\ Apply(i, [w EXCEPT !.r = Finish(showFeedback(@, "is now default.", FALSE))])
           ELSE /\ UNCHANGED syncStore
                /\ Apply(i, [w EXCEPT !.r = Finish(showFeedback(@, "Error setting default.", TRUE))])
    /\ UNCHANGED << bookmarkStore, nextBookmarkId, pendingEvents, tabs,
                    folderSelectValue >>

\* the orders in which the host can list the members of S
Orderings(S) == { o \in [1 .. Cardinality(S) -> S] : Range(o) = S }

\* the folders that hold a bookmark of url u and have a title in the index
ContainingFolders(store, u, index) ==
    { p \in { b.parentId : b \in searchBookmarks(store, u) } \ {RootId} :
        p \in DOMAIN index /\ index[p] # <<>> }

\* getFullFolderHierarchy() has returned to populateBookmarkFolderOptions
PopAfterHierarchy(i) ==
    /\ inv[i].at = "popHier"
    /\ pc[CallOf(i)] = "done"
    /\ LET w == Here(i)
       IN  IF globalFolderTitleMap = None THEN Apply(i, PopReturn(w))
           ELSE Apply(i, [w EXCEPT !.r = Issue(@, "popTabs", "populate:tabs.query")])
    /\ UNCHANGED << hostVars, tabs, folderSelectValue >>

\* chrome.tabs.query({active}) answers populateBookmarkFolderOptions
PopTabsReply(i, ok) ==
    /\ inv[i].at = "popTabs"
    /\ LET w == Here(i)
       IN  IF ~ok THEN Apply(i, PopCatch(w))
           ELSE IF tabs = <<>> \/ ~IsWebUrl(tabs[1].url) THEN Apply(i, PopReturn(w))
           ELSE Apply(i, [w EXCEPT !.r = Issue(@, "popSearch", "populate:bookmarks.search")])
    /\ UNCHANGED << hostVars, tabs, folderSelectValue >>

\* chrome.bookmarks.search answers populateBookmarkFolderOptions: the options
\* are built in the host's order and the browser selects the first one
PopSearchReply(i, ok) ==
    /\ inv[i].at = "popSearch"
    /\ LET w == Here(i)
           bookmarks == searchBookmarks(bookmarkStore, tabs[1].url)
           parentIds == { b.parentId : b \in bookmarks } \ {RootId}
           found == ContainingFolders(bookmarkStore, tabs[1].url, Val(globalFolderTitleMap))
       IN  IF ~ok THEN Apply(i, PopCatch(w))
           ELSE IF bookmarks = {} \/ parentIds = {}
           THEN Apply(i, PopReturn([w EXCEPT !.flag = TRUE]))
           ELSE IF found = {}
           THEN Apply(i, [w EXCEPT !.r = Issue(@, "popStore", "populate:sync.get")])
           ELSE \E o \in Orderings(found) :
                  Apply(i, [w EXCEPT !.opts = o, !.val = o[1],
                                     !.r = Issue(@, "popStore", "populate:sync.get")])
    /\ UNCHANGED << hostVars, tabs, folderSelectValue >>

\* chrome.storage.sync.get(['lastBookmarkedFolderID']) answers: select the
\* last-used folder if it is an option, the first option if none is stored
PopStoreReply(i, ok) ==
    /\ inv[i].at = "popStore"
    /\ LET w == Here(i)
           lastFolderID == syncStore.lastBookmarkedFolderID
           val == IF lastFolderID # None
                  THEN IF Val(lastFolderID) \in Range(w.opts) THEN Val(lastFolderID)
                       ELSE w.val
                  ELSE IF w.opts # <<>> THEN w.opts[1] ELSE w.val
       IN  IF ~ok THEN Apply(i, PopCatch(w))
           ELSE Apply(i, PopReturn([w EXCEPT !.val = val, !.flag = TRUE]))
    /\ UNCHANGED << hostVars, tabs, folderSelectValue >>

\* a delivery that also throws the folder index away
handleBookmarkChangeDropsIndex ==
    /\ pendingEvents > 0
    /\ pendingEvents' = pendingEvents - 1
    /\ hasPopulatedBookmarkFolders' = FALSE
    /\ globalFlatFolderList' = None
    /\ globalFolderTitleMap' = None
    /\ UNCHANGED << hostTree, now, localStore, callVars,
                    bookmarkStore, nextBookmarkId, syncStore, tabs,
                    folderSelectValue, locOptions, locValue, inv >>

\* a bookmark event is delivered to the popup
handleBookmarkChange ==
    /\ pendingEvents > 0
    /\ pendingEvents' = pendingEvents - 1
    /\ hasPopulatedBookmarkFolders' = FALSE
    /\ UNCHANGED << hostTree, now, localStore, globalVars, callVars,
                    bookmarkStore, nextBookmarkId, syncStore, tabs,
                    folderSelectValue, locOptions, locValue, inv >>

\* some handler can still read the dropdowns: one that has not been started,
\* or a Delete or Move that waits for the locations to be re-populated
SelectionMatters ==
    \E i \in Invs : \/ inv[i].kind = "none"
                    \/ /\ inv[i].at \in {"popHier", "popTabs", "popSearch", "popStore"}
                       /\ inv[i].ret # "end"

\* the user picks a folder in the folderSelect dropdown
UserSelectsFolder(f) ==
    /\ SelectionMatters
    /\ folderSelectValue # NoFolder
    /\ globalFolderTitleMap # None
    /\ f \in DOMAIN Val(globalFolderTitleMap)
    /\ f # folderSelectValue
    /\ folderSelectValue' = f
    /\ UNCHANGED << hostTree, now, localStore, globalVars, callVars,
                    bookmarkStore, nextBookmarkId, syncStore, tabs,
                    locOptions, locValue, hasPopulatedBookmarkFolders,
                    pendingEvents, inv >>

\* the user picks a folder in the bookmarkFolderSelect dropdown
UserSelectsLocation(f) ==
    /\ SelectionMatters
    /\ f \in Range(locOptions)
    /\ f # locValue
    /\ locValue' = f
    /\ UNCHANGED << hostTree, now, localStore, globalVars, callVars,
                    bookmarkStore, nextBookmarkId, syncStore, tabs,
                    folderSelectValue, locOptions, hasPopulatedBookmarkFolders,
                    pendingEvents, inv >>

(***************************************************************************)
(* The folder search and its results dropdown                              *)
(***************************************************************************)
\* the searches, bulk actions and shortcut presses of one session
MaxPresses == 2

\* what the user has typed into the search box
Keywords == { <<>>, <<"A">>, <<"b">>, <<"a", " ">> }

\* String.prototype.toLowerCase over the characters of the model
LowerChar(c) == IF c = "A" THEN "a" ELSE IF c = "B" THEN "b" ELSE c
toLowerCase(s) == [i \in 1 .. Len(s) |-> LowerChar(s[i])]

RECURSIVE trimStart(_)
trimStart(s) == IF s # <<>> /\ Head(s) = " " THEN trimStart(Tail(s)) ELSE s

RECURSIVE trimEnd(_)
trimEnd(s) ==
    IF s # <<>> /\ s[Len(s)] = " " THEN trimEnd(SubSeq(s, 1, Len(s) - 1)) ELSE s

\* String.prototype.trim
trim(s) == trimEnd(trimStart(s))

\* String.prototype.includes
includes(s, part) ==
    \E i \in 0 .. (Len(s) - Len(part)) : SubSeq(s, i + 1, i + Len(part)) = part

\* the search term searchBookmarkFolder works with
SearchTerm(input) == trim(toLowerCase(input))

\* chrome.bookmarks.getChildren(folderId), in the host's order
getChildren(t, folderId) == t.children[folderId]

\* what the results dropdown needs of a bookmark
Details(t, n) == [id |-> n, url |-> t.url[n], title |-> t.title[n]]

\* a filter that lets sub-folders through
matchedBookmarksWithFolders(t, bookmarksInFolder, searchTerm) ==
    SelectSeq(bookmarksInFolder,
              LAMBDA n : includes(toLowerCase(t.title[n]), searchTerm))

\* the children searchBookmarkFolder lists: those with a url and, under a
\* search term, with the term in their lower-cased title
matchedBookmarks(t, bookmarksInFolder, searchTerm) ==
    IF searchTerm # <<>>
    THEN SelectSeq(bookmarksInFolder,
                   LAMBDA n : /\ t.url[n] # NoUrl
                              /\ includes(toLowerCase(t.title[n]), searchTerm))
    ELSE SelectSeq(bookmarksInFolder, LAMBDA n : t.url[n] # NoUrl)

\* searchBookmarkFolder up to its await: the dropdown is emptied, the folder
\* dropdown and the search box are read, getChildren is called
StartSearch(s, caller) ==
    LET cleared == [s EXCEPT !.shown = <<>>, !.caller = caller,
                             !.result = "none", !.msgs = <<>>]
    IN  IF ~s.foldersLoaded
        THEN [cleared EXCEPT !.at = "idle", !.result = "rejected",
                  !.msgs = Append(@, Msg("Folders are still loading.", TRUE))]
        ELSE IF folderSelectValue = NoFolder
        THEN [cleared EXCEPT !.at = "idle", !.result = "rejected",
                  !.msgs = Append(@, Msg("Please select a valid folder.", TRUE))]
        ELSE [cleared EXCEPT !.at = "children",
                             !.folderId = folderSelectValue,
                             !.searchTerm = SearchTerm(s.input)]

\* getChildren has answered: the dropdown shows the matches and the monitor
\* of the dropdown gets their details, or a disabled placeholder is shown
ChildrenAnswer(s, ok) ==
    LET matched == matchedBookmarks(hostTree, getChildren(hostTree, s.folderId),
                                    s.searchTerm)
    IN  IF ~ok
        THEN [s EXCEPT !.at = "idle", !.result = "error",
                       !.msgs = Append(@, Msg("Error searching bookmarks.", TRUE))]
        ELSE IF matched = <<>>
        THEN [s EXCEPT !.at = "idle", !.result = "empty"]
        ELSE [s EXCEPT !.at = "idle", !.result = "listed",
                       !.shown = matched,
                       !.bookmarksDetails =
                           [i \in 1 .. Len(matched) |-> Details(hostTree, matched[i])]]

\* what the search panel leaves alone
besidePanel ==
    << now, localStore, globalVars, callVars, bookmarkStore, nextBookmarkId,
       syncStore, tabs, folderSelectValue, locOptions, locValue,
       hasPopulatedBookmarkFolders, inv, bg >>

\* the user starts the search for the keyword in the search box
searchBookmarkFolder ==
    /\ search.at = "idle"
    /\ bulk.at \in {"idle", "done"}
    /\ search.presses + bulk.presses < MaxPresses
    /\ search' = StartSearch([search EXCEPT !.presses = @ + 1], "user")
    /\ UNCHANGED << hostTree, pendingEvents, bulk, besidePanel >>

\* chrome.bookmarks.getChildren answers the search
ChildrenReply(ok) ==
    /\ search.at = "children"
    /\ search' = ChildrenAnswer(search, ok)
    /\ UNCHANGED << hostTree, pendingEvents, bulk, besidePanel >>

\* the tally message of a bulk action
BulkTally(b) ==
    [b EXCEPT !.msgs = Append(@, Msg("tally", FALSE))]

\* a bulk action that works on what the folder holds when it is started
bkmOptionMonitorOnFolder(isOpening, confirmed) ==
    /\ search.at = "idle"
    /\ search.shown # <<>>
    /\ bulk.at \in {"idle", "done"}
    /\ search.presses + bulk.presses < MaxPresses
    /\ LET matched == matchedBookmarks(hostTree, getChildren(hostTree, search.folderId),
                                       search.searchTerm)
           details == [i \in 1 .. Len(matched) |-> Details(hostTree, matched[i])]
           begun == [NoBulk EXCEPT !.presses = bulk.presses + 1,
                                   !.isOpening = isOpening,
                                   !.bookmarksDetails = details]
       IN  bulk' =
             IF ~confirmed \/ details = <<>> THEN [bulk EXCEPT !.presses = @ + 1]
             ELSE IF isOpening
             THEN BulkTally([begun EXCEPT
                      !.at = "done",
                      !.opened = [i \in 1 .. Len(details) |-> details[i].url],
                      !.successCount = Len(details)])
             ELSE [begun EXCEPT !.at = "remove", !.k = 1]
    /\ UNCHANGED << hostTree, pendingEvents, search, besidePanel >>

\* the onchange handler of the results dropdown, on Open All or Delete All:
\* Open All creates its tabs without waiting, Delete All waits for each removal
bkmOptionMonitor(isOpening, confirmed) ==
    /\ search.at = "idle"
    /\ search.shown # <<>>
    /\ bulk.at \in {"idle", "done"}
    /\ search.presses + bulk.presses < MaxPresses
    /\ LET details == search.bookmarksDetails
           begun == [NoBulk EXCEPT !.presses = bulk.presses + 1,
                                   !.isOpening = isOpening,
                                   !.bookmarksDetails = details]
       IN  bulk' =
             IF ~confirmed THEN [bulk EXCEPT !.presses = @ + 1]
             ELSE IF isOpening
             THEN BulkTally([begun EXCEPT
                      !.at = "done",
                      !.opened = [i \in 1 .. Len(details) |-> details[i].url],
                      !.successCount = Len(details)])
             ELSE [begun EXCEPT !.at = "remove", !.k = 1]
    /\ UNCHANGED << hostTree, pendingEvents, search, besidePanel >>

\* the tree without the node n
Detached(t, n) ==
    [t EXCEPT !.children =
        [p \in NodeIds |-> SelectSeq(t.children[p], LAMBDA c : c # n)]]

\* a Delete All that stops at the first removal the host rejects
BulkRemoveReplyStopsOnError(ok) ==
    /\ bulk.at = "remove"
    /\ LET bkm == bulk.bookmarksDetails[bulk.k]
           last == ~ok \/ bulk.k = Len(bulk.bookmarksDetails)
           tried == [bulk EXCEPT !.attempts = Append(@, bkm.id), !.k = @ + 1]
           counted ==
               IF ok THEN [tried EXCEPT !.successCount = @ + 1]
               ELSE [tried EXCEPT !.msgs = Append(@, Msg("Error with", TRUE))]
       IN  /\ ok => bkm.id \in Attached(hostTree)
           /\ IF ok
              THEN /\ hostTree' = Detached(hostTree, bkm.id)
                   /\ pendingEvents' = pendingEvents + 1
              ELSE UNCHANGED << hostTree, pendingEvents >>
           /\ IF last
              THEN /\ bulk' = [BulkTally(counted) EXCEPT !.at = "refresh"]
                   /\ search' = StartSearch(search, "bulk")
              ELSE /\ bulk' = counted
                   /\ UNCHANGED search
    /\ UNCHANGED besidePanel

\* chrome.bookmarks.remove(bkm.id) answers Delete All; after the last entry
\* the tally is shown and the search is repeated
BulkRemoveReply(ok) ==
    /\ bulk.at = "remove"
    /\ LET bkm == bulk.bookmarksDetails[bulk.k]
           last == bulk.k = Len(bulk.bookmarksDetails)
           tried == [bulk EXCEPT !.attempts = Append(@, bkm.id), !.k = @ + 1]
           counted ==
               IF ok THEN [tried EXCEPT !.successCount = @ + 1]
               ELSE [tried EXCEPT !.msgs = Append(@, Msg("Error with", TRUE))]
       IN  /\ ok => bkm.id \in Attached(hostTree)
           /\ IF ok
              THEN /\ hostTree' = Detached(hostTree, bkm.id)
                   /\ pendingEvents' = pendingEvents + 1
              ELSE UNCHANGED << hostTree, pendingEvents >>
           /\ IF last
              THEN /\ bulk' = [BulkTally(counted) EXCEPT !.at = "refresh"]
                   /\ search' = StartSearch(search, "bulk")
              ELSE /\ bulk' = counted
                   /\ UNCHANGED search
    /\ UNCHANGED besidePanel

\* Delete All resumes after its searchBookmarkFolder() and refreshes the
\* locations dropdown
BulkAfterSearch(i) ==
    /\ bulk.at = "refresh"
    /\ search.at = "idle"
    /\ inv[i].kind = "none"
    /\ i = "i1" \/ inv["i1"].kind # "none"
    /\ bulk' = [bulk EXCEPT !.at = "populate", !.slot = i]
    /\ Apply(i, StartPopulate([Here(i) EXCEPT !.r = Started("populate")],
                              TRUE, "end"))
    /\ UNCHANGED << hostVars, tabs, folderSelectValue, search, bg >>

\* Delete All resumes after populateBookmarkFolderOptions(true) and returns
BulkAfterPopulate ==
    /\ bulk.at = "populate"
    /\ inv[bulk.slot].at = "done"
    /\ bulk' = [bulk EXCEPT !.at = "done"]
    /\ UNCHANGED << hostTree, pendingEvents, search, besidePanel >>

\* the ids the children of the searched folder can have
ChildIds == {2, 3}

\* the results dropdown lists bookmarks, or Delete All works on such a list
ListInUse == search.shown # <<>> \/ bulk.at = "remove"

\* somebody else removes a bookmark of the searched folder, or moves it away
HostRemovesListed(n) ==
    /\ ListInUse
    /\ n \in Range(hostTree.children[1])
    /\ hostTree.url[n] # NoUrl
    /\ hostTree' = Detached(hostTree, n)
    /\ pendingEvents' = pendingEvents + 1
    /\ UNCHANGED << search, bulk, besidePanel >>

\* somebody else adds a bookmark to the searched folder; its id is new
HostAddsListed(n, title) ==
    /\ ListInUse
    /\ n \in ChildIds \ Attached(hostTree)
    /\ hostTree.url[n] = NoUrl
    /\ hostTree' = [hostTree EXCEPT !.children[1] = Append(@, n),
                                    !.url[n] = "u", !.title[n] = title]
    /\ pendingEvents' = pendingEvents + 1
    /\ UNCHANGED << search, bulk, besidePanel >>

\* what a child of the searched folder can be: a bookmark or a sub-folder
ChildKinds ==
    { [url |-> "u", title |-> <<"A">>], [url |-> "u", title |-> <<"a", "B">>],
      [url |-> NoUrl, title |-> <<"a">>] }

\* the tree root -> [FolderA -> kids], the kids in the given order
SearchTree(order, kind) ==
    [ title    |-> [n \in NodeIds |-> IF n = 1 THEN <<"a">>
                                      ELSE IF n \in Range(order) THEN kind[n].title
                                      ELSE <<>>],
      url      |-> [n \in NodeIds |-> IF n \in Range(order) THEN kind[n].url
                                      ELSE NoUrl],
      children |-> [n \in NodeIds |-> IF n = RootId THEN <<1>>
                                      ELSE IF n = 1 THEN order ELSE <<>>] ]

\* the popup open on a page that is not a web page, with the search panel in
\* use: a keyword is in the search box, and folder A is selected once the
\* folders are loaded
SearchPanelInit ==
    /\ \E kids \in { ChildIds, {2} } :
       \E order \in Orderings(kids), kind \in [kids -> ChildKinds] :
           hostTree = SearchTree(order, kind)
    /\ now = StartNow
    /\ InitCalls
    /\ tabs = << Tab(UrlChrome, <<"t">>) >>
    /\ bookmarkStore = {}
    /\ nextBookmarkId = FirstBookmarkId
    /\ syncStore = [defaultFolderId |-> None, lastBookmarkedFolderID |-> None]
    /\ pendingEvents = 0
    /\ inv = [i \in Invs |-> NoInv]
    /\ locOptions = <<>>
    /\ locValue = NoFolder
    /\ hasPopulatedBookmarkFolders = FALSE
    /\ bulk = NoBulk
    /\ bg = NoShortcut
    /\ \/ /\ \E input \in Keywords :
                 search = [NoSearch EXCEPT !.at = "idle", !.foldersLoaded = TRUE,
                                           !.input = input]
          /\ localStore = Entry(FlattenTree(hostTree), StartNow)
          /\ globalFlatFolderList = Some(FlattenTree(hostTree))
          /\ globalFolderTitleMap = Some(BuildIndex(FlattenTree(hostTree)))
          /\ folderSelectValue = 1
       \/ /\ search = [NoSearch EXCEPT !.at = "idle"]
          /\ localStore = NoEntry
          /\ globalFlatFolderList = None
          /\ globalFolderTitleMap = None
          /\ folderSelectValue = NoFolder

\* the steps of the search panel
SearchPanelNext ==
    \/ searchBookmarkFolder
    \/ \E ok \in BOOLEAN : ChildrenReply(ok)
    \/ \E isOpening, confirmed \in BOOLEAN : bkmOptionMonitor(isOpening, confirmed)
    \/ \E ok \in BOOLEAN : BulkRemoveReply(ok)
    \/ \E i \in Invs : BulkAfterSearch(i)
    \/ BulkAfterPopulate
    \/ \E n \in NodeIds : HostRemovesListed(n)
    \/ \E n \in NodeIds, title \in {<<"a">>} : HostAddsListed(n, title)

(***************************************************************************)
(* The popup with its buttons                                              *)
(***************************************************************************)
\* the popup, opened on a bookmarked web page, before its initial load has
\* filled the folder dropdown
NotLoaded ==
    /\ tabs # <<>> /\ IsWebUrl(tabs[1].url)
    /\ searchBookmarks(bookmarkStore, tabs[1].url) # {}
    /\ localStore = NoEntry
    /\ globalFlatFolderList = None
    /\ globalFolderTitleMap = None
    /\ folderSelectValue = NoFolder
    /\ locOptions = <<>>
    /\ locValue = NoFolder
    /\ hasPopulatedBookmarkFolders = FALSE

\* the popup after its initial load; the folder dropdown has a folder selected
\* or, filtered down to no match, only a disabled placeholder; the locations
\* dropdown is still empty or already shows the folders of the active tab
Loaded ==
    LET list == FlattenTree(SampleTree)
        index == BuildIndex(list)
        found == IF tabs = <<>> THEN {}
                 ELSE ContainingFolders(bookmarkStore, tabs[1].url, index)
    IN  /\ localStore = Entry(list, StartNow)
        /\ globalFlatFolderList = Some(list)
        /\ globalFolderTitleMap = Some(index)
        /\ folderSelectValue \in DOMAIN index \cup {NoFolder}
        /\ \/ /\ locOptions = <<>>
              /\ locValue = NoFolder
              /\ hasPopulatedBookmarkFolders = FALSE
           \/ /\ found # {}
              /\ locOptions \in Orderings(found)
              /\ locValue \in found
              /\ hasPopulatedBookmarkFolders = TRUE

\* the popup with its buttons in use and the search panel left alone
ButtonsInit ==
    /\ search = NoSearch
    /\ bulk = NoBulk
    /\ bg = NoShortcut
    /\ hostTree = SampleTree
    /\ now = StartNow
    /\ InitCalls
    /\ tabs \in TabSets
    /\ bookmarkStore \in EarlierBookmarks
    /\ nextBookmarkId = FirstBookmarkId + 1
    /\ syncStore = [defaultFolderId |-> None, lastBookmarkedFolderID |-> None]
    /\ pendingEvents = 0
    /\ inv = [i \in Invs |-> NoInv]
    /\ (NotLoaded \/ Loaded)

\* the session works the buttons
ButtonsInUse == search.at = "off" /\ bg.at = "off"

\* a popup session works the buttons or the search panel
ActionInit == ButtonsInit \/ SearchPanelInit

ActionNext ==
    \/ SearchPanelNext
    \/ \E i \in Invs : ButtonsInUse /\ saveBookmark(i) /\ UNCHANGED panelVars
    \/ \E i \in Invs : ButtonsInUse /\ setDefaultFolder(i) /\ UNCHANGED panelVars
    \/ \E i \in Invs : ButtonsInUse /\ deleteBookmark(i) /\ UNCHANGED panelVars
    \/ \E i \in Invs : ButtonsInUse /\ moveBookmark(i) /\ UNCHANGED panelVars
    \/ \E i \in Invs, force \in BOOLEAN : ButtonsInUse /\ populateBookmarkFolderOptions(i, force) /\ UNCHANGED panelVars
    \/ \E i \in Invs, ok \in BOOLEAN : TabsReply(i, ok) /\ UNCHANGED panelVars
    \/ \E i \in Invs, ok \in BOOLEAN : SaveSearchReply(i, ok) /\ UNCHANGED panelVars
    \/ \E i \in Invs, ok \in BOOLEAN : LocateReply(i, ok) /\ UNCHANGED panelVars
    \/ \E i \in Invs, ok \in BOOLEAN : CreateReply(i, ok) /\ UNCHANGED panelVars
    \/ \E i \in Invs, ok \in BOOLEAN : RemoveReply(i, ok) /\ UNCHANGED panelVars
    \/ \E i \in Invs, ok \in BOOLEAN, m \in MoveErrors : MoveReply(i, ok, m) /\ UNCHANGED panelVars
    \/ \E i \in Invs, ok \in BOOLEAN : SetLastReply(i, ok) /\ UNCHANGED panelVars
    \/ \E i \in Invs, ok \in BOOLEAN : DefSetReply(i, ok) /\ UNCHANGED panelVars
    \/ \E i \in Invs : PopAfterHierarchy(i) /\ UNCHANGED panelVars
    \/ \E i \in Invs, ok \in BOOLEAN : PopTabsReply(i, ok) /\ UNCHANGED panelVars
    \/ \E i \in Invs, ok \in BOOLEAN : PopSearchReply(i, ok) /\ UNCHANGED panelVars
    \/ \E i \in Invs, ok \in BOOLEAN : PopStoreReply(i, ok) /\ UNCHANGED panelVars
    \/ handleBookmarkChange /\ UNCHANGED panelVars
    \/ \E f \in NodeIds : ButtonsInUse /\ UserSelectsFolder(f) /\ UNCHANGED panelVars
    \/ \E f \in NodeIds : ButtonsInUse /\ UserSelectsLocation(f) /\ UNCHANGED panelVars
    \/ \E c \in Calls : HostGetLocal(c) /\ UNCHANGED actionVars
    \/ \E c \in Calls : ResumeGetLocal(c) /\ UNCHANGED actionVars
    \/ \E c \in Calls : HostGetTree(c) /\ UNCHANGED actionVars
    \/ \E c \in Calls : ResumeGetTree(c) /\ UNCHANGED actionVars
    \/ \E c \in Calls : HostSetLocal(c) /\ UNCHANGED actionVars
    \/ \E c \in Calls : ResumeSetLocal(c) /\ UNCHANGED actionVars

ActionSpec == ActionInit /\ [][ActionNext]_vars

(***************************************************************************)
(* Properties of the buttons (checked under ActionSpec)                    *)
(***************************************************************************)
\* handler i takes this step
Acts(i) == inv'[i] # inv[i]

\* the store holds a bookmark of url u in folder f
PairPresent(store, u, f) == \E b \in store : b.url = u /\ b.parentId = f

\* the bookmarks of url u in folder f
PairBookmarks(store, u, f) == { b \in store : b.url = u /\ b.parentId = f }

\* the host answers (does not reject) the lookup handler i waits for
LookupAnswered(i) ==
    /\ inv[i].at = "search" /\ Acts(i)
    /\ ~(/\ Len(inv'[i].outcomes) >= inv[i].k
         /\ inv'[i].outcomes[inv[i].k] = "lookupFailed")

\* Save never looks up or creates for a tab whose url is not http(s), and
\* counts exactly those tabs as skipped
SaveSkipsOtherUrls ==
    \A i \in Invs :
        inv[i].kind = "save" =>
            /\ inv[i].at \in {"search", "mutate"} => IsWebUrl(CurrentTab(inv[i]).url)
            /\ \A j \in 1 .. Len(inv[i].outcomes) :
                   (inv[i].outcomes[j] = "skipped") <=> ~IsWebUrl(inv[i].tabsToProcess[j].url)

\* what Save does with one tab once the lookup is answered, and what the
\* host adds when it carries the create out
SaveRule(i) ==
    LET r == inv[i]
        currentTab == CurrentTab(r)
        present == PairPresent(bookmarkStore, currentTab.url, r.folderId)
        made == bookmarkStore' \ bookmarkStore
    IN  /\ LookupAnswered(i) =>
              /\ (inv'[i].at = "mutate" /\ inv'[i].k = r.k) <=> ~present
              /\ present =>
                    /\ inv'[i].outcomes[r.k] = "exists"
                    /\ inv'[i].otherCount = r.otherCount + 1
                    /\ inv'[i].successCount = r.successCount
                    /\ bookmarkStore' = bookmarkStore
        /\ (Acts(i) /\ bookmarkStore' # bookmarkStore) =>
              /\ r.at = "mutate"
              /\ bookmarkStore \subseteq bookmarkStore'
              /\ \E b \in made :
                    /\ made = {b}
                    /\ b.parentId = r.folderId
                    /\ b.url = currentTab.url
                    /\ b.title = (IF currentTab.title # <<>> THEN currentTab.title
                                  ELSE currentTab.url)
                    /\ \A e \in bookmarkStore : e.id # b.id

\* C12: for each highlighted tab, Save asks the host to create a bookmark
\* exactly when the tab's url is http(s) and the answered lookup shows no
\* bookmark of that url in the target folder; the bookmark the host then adds
\* has the target as parent, the tab's url, and the tab's title (the url when
\* the title is empty); a pair already present is counted as already existing
\* and the store is left alone.
C12_SavePerTab ==
    /\ []SaveSkipsOtherUrls
    /\ [][\A i \in Invs : inv[i].kind = "save" => SaveRule(i)]_vars

\* one Save has created a bookmark titled by its url, another has found its
\* tab already bookmarked in the target folder
C12_Witness ==
    \E i, j \in Invs :
        /\ inv[i].kind = "save" /\ "done" \in Range(inv[i].outcomes)
        /\ \E b \in bookmarkStore :
              b.id > FirstBookmarkId /\ b.title = b.url /\ b.parentId = inv[i].folderId
        /\ inv[j].kind = "save" /\ "exists" \in Range(inv[j].outcomes)

\* Save j was started after Save i had returned, with the same target folder
SaveAgain(i, j) ==
    /\ i # j
    /\ inv[i].kind = "save" /\ inv[j].kind = "save"
    /\ i \in inv[j].after
    /\ inv[i].folderId = inv[j].folderId
    /\ inv[i].tabsToProcess = inv[j].tabsToProcess

\* both Saves are through with tab t: the first saved it or found it, the
\* second had its lookup answered
BothThrough(i, j, t) ==
    /\ t <= Len(inv[i].outcomes) /\ t <= Len(inv[j].outcomes)
    /\ inv[i].outcomes[t] \in {"done", "exists"}
    /\ inv[j].outcomes[t] # "lookupFailed"

\* C13: when Save is pressed again after a Save that saved a tab (or found it
\* saved) has returned, with the same tab and the same target folder, the
\* second Save creates nothing for that tab, counts it as already existing,
\* and the store holds exactly one bookmark for that (url, folder) pair.
C13_SaveIdempotent ==
    \A i, j \in Invs :
        SaveAgain(i, j) =>
            \A t \in 1 .. Len(inv[j].outcomes) :
                BothThrough(i, j, t) =>
                    /\ inv[j].outcomes[t] = "exists"
                    /\ Cardinality(PairBookmarks(bookmarkStore,
                                                 inv[j].tabsToProcess[t].url,
                                                 inv[j].folderId)) = 1

\* the first Save created the bookmark of the first tab, the second Save is
\* through with that tab
C13_Witness ==
    \E i, j \in Invs :
        /\ SaveAgain(i, j)
        /\ BothThrough(i, j, 1)
        /\ inv[i].outcomes[1] = "done"
        /\ inv[j].at = "done"

\* the loop of handler i has gone through all its tabs
LoopFinished(i) ==
    inv[i].tabsToProcess # <<>> /\ inv[i].k > Len(inv[i].tabsToProcess)

\* Save asks for the write of lastBookmarkedFolderID exactly when its loop
\* has finished with at least one create carried out
RecordsOnlySuccess ==
    \A i \in Invs :
        inv[i].kind = "save" =>
            ("sync.set" \in inv[i].log <=> (LoopFinished(i) /\ inv[i].successCount > 0))

\* every change of lastBookmarkedFolderID is the write of a Save with a
\* successful create, and stores that Save's target folder
LastFolderWrite ==
    syncStore'.lastBookmarkedFolderID # syncStore.lastBookmarkedFolderID =>
        \E i \in Invs :
            /\ Acts(i)
            /\ inv[i].kind = "save" /\ inv[i].at = "setLast"
            /\ inv[i].successCount > 0
            /\ syncStore'.lastBookmarkedFolderID = Some(inv[i].folderId)

\* C14: Save asks the synced store to set lastBookmarkedFolderID to the target
\* folder exactly when at least one create of that invocation succeeded; a
\* Save whose tabs were all skipped, already present or failed leaves the
\* stored last-used folder as it was.
C14_LastFolder ==
    /\ []RecordsOnlySuccess
    /\ [][LastFolderWrite]_vars

\* one Save created a bookmark and recorded its target; a later Save found
\* everything in place and wrote nothing
C14_Witness ==
    \E i, j \in Invs :
        /\ inv[i].kind = "save" /\ inv[i].at = "done" /\ inv[i].successCount > 0
        /\ syncStore.lastBookmarkedFolderID = Some(inv[i].folderId)
        /\ inv[j].kind = "save" /\ inv[j].at = "done" /\ LoopFinished(j)
        /\ inv[j].successCount = 0 /\ inv[j].otherCount > 0
        /\ "sync.set" \notin inv[j].log

\* no other handler runs while handler i does
Alone(i) == \A j \in Invs \ {i} : inv[j].kind = "none" \/ j \in inv[i].after

\* what Delete does with one tab once the lookup is answered, and what a
\* step of Delete can take out of the store
DeleteRule(i) ==
    LET r == inv[i]
        currentTab == CurrentTab(r)
        matches == PairBookmarks(bookmarkStore, currentTab.url, r.fromFolderId)
        gone == bookmarkStore \ bookmarkStore'
    IN  /\ LookupAnswered(i) =>
              /\ bookmarkStore' = bookmarkStore
              /\ IF matches = {}
                 THEN /\ inv'[i].outcomes[r.k] = "notFound"
                      /\ inv'[i].otherCount = r.otherCount + 1
                      /\ inv'[i].successCount = r.successCount
                 ELSE /\ inv'[i].at = "mutate" /\ inv'[i].k = r.k
                      /\ \E b \in matches : inv'[i].target = b.id
        /\ (Acts(i) /\ bookmarkStore' # bookmarkStore) =>
              /\ r.at = "mutate"
              /\ bookmarkStore' \subseteq bookmarkStore
              /\ inv'[i].outcomes[r.k] = "done"
              /\ inv'[i].successCount = r.successCount + 1
              /\ \E b \in gone :
                    /\ gone = {b}
                    /\ b.id = r.target
                    /\ b.url = currentTab.url
                    /\ Alone(i) => b.parentId = r.fromFolderId
        /\ (Acts(i) /\ Alone(i)) =>
              \A b \in bookmarkStore : b.parentId # r.fromFolderId => b \in bookmarkStore'

\* C15: for each highlighted tab with a url, Delete removes at most one
\* bookmark, one with the tab's url whose parent is the selected source
\* folder, and counts a success; when the lookup shows none it removes nothing
\* and counts the tab as not found; a Delete that runs on its own never
\* removes a bookmark of another folder.
C15_DeletePerTab ==
    [][\A i \in Invs : inv[i].kind = "delete" => DeleteRule(i)]_vars

\* a Delete on its own removed the bookmark of its first tab, did not find the
\* second, and the first tab is still bookmarked in another folder
C15_Witness ==
    \E i \in Invs :
        /\ inv[i].kind = "delete" /\ inv[i].at = "done" /\ Alone(i)
        /\ inv[i].outcomes = << "done", "notFound" >>
        /\ \E b \in bookmarkStore :
              b.url = inv[i].tabsToProcess[1].url /\ b.parentId # inv[i].fromFolderId

\* the ids of the bookmarks in a store
BookmarkIds(store) == { b.id : b \in store }

\* handler i, a Move, has its move carried out by the host in this step
MoveSucceeds(i) ==
    /\ inv[i].kind = "move" /\ inv[i].at = "mutate" /\ Acts(i)
    /\ inv'[i].outcomes[inv[i].k] = "done"

\* C16 (as claimed): after a Move on its own has moved bookmark B of url U
\* from F1 to F2, a lookup of U in F1 finds nothing, a lookup of U in F2 finds
\* B, whichever match the host lists first, and the ids in the store are the
\* same as before.
C16_Original ==
    [][\A i \in Invs :
          (MoveSucceeds(i) /\ Alone(i)) =>
              LET U == CurrentTab(inv[i]).url
                  inF2 == PairBookmarks(bookmarkStore', U, inv[i].folderId)
              IN  /\ PairBookmarks(bookmarkStore', U, inv[i].fromFolderId) = {}
                  /\ inF2 # {}
                  /\ \A b \in inF2 : b.id = inv[i].target
                  /\ BookmarkIds(bookmarkStore') = BookmarkIds(bookmarkStore)]_vars

\* the message on display when handler i has shown one
LastMsg(i) == inv[i].msgs[Len(inv[i].msgs)]

\* Move i has been turned down because source and destination are the same
SameFolderRejected(i) ==
    /\ inv[i].kind = "move" /\ inv[i].msgs # <<>>
    /\ LastMsg(i).text = "Source and destination are same."

\* the host calls of the re-population of the locations dropdown
PopulateCalls ==
    { "populate:local.get", "populate:tabs.query", "populate:bookmarks.search",
      "populate:sync.get" }

\* the host calls of the loops of Save, Delete and Move
LoopCalls ==
    { "tabs.query", "bookmarks.search", "bookmarks.create", "bookmarks.remove",
      "bookmarks.move" }

\* C17 (as claimed): a Move whose source and destination are the same folder
\* issues no tab query, no bookmark search and no host move, leaves the store
\* alone and reports the outcome as informational.
C17_Original ==
    \A i \in Invs :
        SameFolderRejected(i) =>
            /\ inv[i].log \cap (LoopCalls \cup {"populate:tabs.query",
                                               "populate:bookmarks.search"}) = {}
            /\ inv[i].successCount = 0
            /\ ~LastMsg(i).isError

\* a rejected Move has returned, has made no call of its loop, no mutation,
\* and its message is not an error; a Move that does go on to its loop has
\* two different folders
SameFolderStops ==
    \A i \in Invs :
        /\ SameFolderRejected(i) =>
              /\ inv[i].at = "done"
              /\ inv[i].log \subseteq PopulateCalls
              /\ inv[i].successCount = 0 /\ inv[i].k = 0
              /\ ~LastMsg(i).isError
        /\ (inv[i].kind = "move" /\ "tabs.query" \in inv[i].log) =>
              inv[i].fromFolderId # inv[i].folderId

\* a Move pressed while the locations dropdown is filled and not stale, with
\* the same folder selected in both dropdowns, is turned down in its first
\* stretch: no host call at all, the store as it was
SameFolderAtOnce ==
    \A i \in Invs :
        (/\ inv[i].kind = "none" /\ inv'[i].kind = "move"
         /\ locOptions # <<>> /\ hasPopulatedBookmarkFolders
         /\ locValue # NoFolder /\ locValue = folderSelectValue) =>
            /\ inv'[i].at = "done"
            /\ inv'[i].log = {}
            /\ inv'[i].msgs = << Msg("Source and destination are same.", FALSE) >>
            /\ bookmarkStore' = bookmarkStore

\* C17 (amended): a Move whose source and destination are the same folder is
\* turned down as a no-op: apart from the re-population of an empty or stale
\* locations dropdown that precedes the test, it issues no tab query, no
\* bookmark search and no host move, leaves the store alone and reports the
\* outcome as informational.
C17_SameFolderNoOp ==
    /\ []SameFolderStops
    /\ [][SameFolderAtOnce]_vars

\* a Move has been turned down at once, without any host call
C17_Witness ==
    \E i \in Invs : SameFolderRejected(i) /\ inv[i].log = {} /\ inv[i].at = "done"

\* the host's messages for a move it rejects for a structural reason
StructuralErrors ==
    { "Can't move node into its own child.",
      "Can't modify the root bookmark folders." }

\* the messages of Move that name a structural reason
StructuralMessages == { "Cannot move into its own subfolder." }

\* C18 (as claimed): whenever the host has rejected a move of a Move for a
\* structural reason (destination below the moved node, or destination the
\* absolute root), that Move has shown a message specific to the reason, not
\* only the failure count of the tally.
C18_Original ==
    \A i \in Invs :
        inv[i].kind = "move" =>
            \A t \in 1 .. Len(inv[i].outcomes) :
                inv[i].outcomes[t] \in StructuralErrors =>
                    \E n \in 1 .. Len(inv[i].msgs) :
                        /\ inv[i].msgs[n].text \in StructuralMessages
                        /\ inv[i].msgs[n].isError

\* what a step of Set Default can change
SetDefaultFrame(i) ==
    LET r == inv'[i]
    IN  /\ bookmarkStore' = bookmarkStore
        /\ syncStore'.lastBookmarkedFolderID = syncStore.lastBookmarkedFolderID
        /\ localStore' = localStore
        /\ hasPopulatedBookmarkFolders' = hasPopulatedBookmarkFolders
        /\ r.log \subseteq {"sync.set"}
        /\ (inv[i].kind = "none" /\ folderSelectValue # NoFolder) =>
              r.at = "defSet" /\ r.folderId = folderSelectValue
        /\ syncStore' # syncStore =>
              /\ inv[i].at = "defSet"
              /\ syncStore' = [syncStore EXCEPT !.defaultFolderId = Some(inv[i].folderId)]

\* C19: Set Default with a valid selection asks for one write, of
\* defaultFolderId = the selected folder, to the synced store; no step of it
\* creates, removes or moves a bookmark, and lastBookmarkedFolderID, the
\* hierarchy cache entry and the staleness flag of the locations dropdown
\* stay as they are.
C19_SetDefaultFrame ==
    [][\A i \in Invs :
          (Acts(i) /\ inv'[i].kind = "setDefault") => SetDefaultFrame(i)]_vars

\* a Set Default has stored its folder while bookmarks exist and the
\* locations dropdown is marked as populated
C19_Witness ==
    \E i \in Invs :
        /\ inv[i].kind = "setDefault" /\ inv[i].at = "done"
        /\ syncStore.defaultFolderId = Some(inv[i].folderId)
        /\ syncStore.lastBookmarkedFolderID # Some(inv[i].folderId)
        /\ bookmarkStore # {}
        /\ hasPopulatedBookmarkFolders

\* the messages that turn an action down for a missing or disabled selection
ValidationMessages ==
    { "No valid folder selected to save to.",
      "No valid folder selected as default.",
      "No valid folder selected to delete from.",
      "Cannot determine folder; it's empty.",
      "No valid 'from' folder selected.",
      "No valid 'to' folder selected." }

\* handler i has been turned down by the validation of a selection
ValidationRejected(i) ==
    /\ inv[i].kind \in {"save", "setDefault", "delete", "move"}
    /\ inv[i].msgs # <<>>
    /\ LastMsg(i).text \in ValidationMessages

\* C20 (as claimed): an action turned down for a missing or disabled selection
\* has made no host call before the error message.
C20_Original ==
    \A i \in Invs : ValidationRejected(i) => inv[i].log = {}

\* an action turned down by the validation has returned with an error message
\* and has made no call of its loop and no mutation; Save and Set Default have
\* made no host call at all; an action that goes on to its host call has the
\* selections it needs
ValidationStops ==
    \A i \in Invs :
        /\ ValidationRejected(i) =>
              /\ inv[i].at = "done"
              /\ LastMsg(i).isError
              /\ inv[i].log \subseteq PopulateCalls
              /\ inv[i].kind \in {"save", "setDefault"} => inv[i].log = {}
              /\ inv[i].successCount = 0 /\ inv[i].k = 0
        /\ (inv[i].log \cap {"tabs.query", "sync.set"} # {}) =>
              /\ inv[i].kind \in {"save", "setDefault", "move"} => inv[i].folderId # NoFolder
              /\ inv[i].kind \in {"delete", "move"} => inv[i].fromFolderId # NoFolder

\* Save and Set Default pressed without a target, and Move pressed without a
\* destination while the locations dropdown is filled and not stale, are
\* turned down in their first stretch, before any host call
RejectedAtOnce ==
    \A i \in Invs :
        (/\ inv[i].kind = "none"
         /\ folderSelectValue = NoFolder
         /\ \/ inv'[i].kind \in {"save", "setDefault"}
            \/ /\ inv'[i].kind = "move"
               /\ locOptions # <<>> /\ hasPopulatedBookmarkFolders
               /\ locValue # NoFolder) =>
            /\ inv'[i].at = "done"
            /\ inv'[i].log = {}
            /\ Len(inv'[i].msgs) = 1
            /\ inv'[i].msgs[1].text \in ValidationMessages /\ inv'[i].msgs[1].isError
            /\ bookmarkStore' = bookmarkStore /\ syncStore' = syncStore

\* C20 (amended): Save and Set Default without a valid target are turned down
\* with an error message before any host call, and so is Move without a valid
\* destination when the locations dropdown is filled and fresh. Delete and
\* Move first re-populate an empty or stale locations dropdown, so their
\* rejection for a missing source comes after the host calls of that
\* re-population, but before any highlighted-tab query, per-tab search or
\* mutation.
C20_ValidationFirst ==
    /\ []ValidationStops
    /\ [][RejectedAtOnce]_vars

\* a Save and a Move have both been turned down without a single host call
C20_Witness ==
    \E i, j \in Invs :
        /\ ValidationRejected(i) /\ inv[i].kind = "save" /\ inv[i].log = {}
        /\ ValidationRejected(j) /\ inv[j].kind = "move" /\ inv[j].log = {}

(***************************************************************************)
(* The search panel: results, bulk actions and their tallies               *)
(***************************************************************************)
\* getChildren has answered this step and the search went through
SearchAnswered ==
    /\ search.at = "children"
    /\ search'.at = "idle"
    /\ search'.result \in {"empty", "listed"}

\* the children of the searched folder with a url whose title contains the
\* keyword k, letter case aside, in the host's order
Containing(k) ==
    SelectSeq(hostTree.children[search.folderId],
              LAMBDA n : /\ hostTree.url[n] # NoUrl
                         /\ k # <<>> => includes(toLowerCase(hostTree.title[n]), k))

\* C21 (as claimed): a folder search lists exactly the children of the folder
\* that carry a url and, when the keyword typed is not empty, whose title
\* contains the keyword, letter case aside; sub-folders are never listed and
\* the host's order is kept
C21_Original ==
    [][SearchAnswered => search'.shown = Containing(toLowerCase(search.input))]_vars

\* C21 (amended): a folder search lists exactly the children of the folder
\* that carry a url and, when the keyword is not empty once the blanks at its
\* ends are dropped, whose title contains that shortened keyword, letter case
\* aside; sub-folders are never listed and the host's order is kept
C21_SearchResult ==
    [][SearchAnswered => search'.shown = Containing(trim(toLowerCase(search.input)))]_vars

\* a search for a keyword with a blank behind it has listed a bookmark and
\* left out a sub-folder whose title contains the keyword
C21_Witness ==
    /\ search.result = "listed"
    /\ search.input = <<"a", " ">>
    /\ search.shown = Containing(<<"a">>)
    /\ \E n \in Range(hostTree.children[search.folderId]) :
           /\ hostTree.url[n] = NoUrl
           /\ includes(toLowerCase(hostTree.title[n]), <<"a">>)

\* the ids and the urls of a list of bookmark details
ListedIds(details) == [i \in 1 .. Len(details) |-> details[i].id]
ListedUrls(details) == [i \in 1 .. Len(details) |-> details[i].url]

\* the user has confirmed Open All or Delete All in this step: a declined
\* confirmation returns at once and leaves the earlier run's record as it was
BulkStarts ==
    /\ bulk'.presses > bulk.presses
    /\ bulk'.at \in {"done", "remove"}
    /\ bulk' # [bulk EXCEPT !.presses = @ + 1]

\* the bulk action takes the list of the search that filled the dropdown
TakesSnapshot ==
    BulkStarts =>
        /\ search.result = "listed"
        /\ ListedIds(search.bookmarksDetails) = search.shown
        /\ bulk'.bookmarksDetails = search.bookmarksDetails

\* Open All has asked for one tab per entry of its list, Delete All has asked
\* for one removal per entry it has got to, by the id of the entry
OnePerEntry ==
    /\ bulk.isOpening => bulk.opened = ListedUrls(bulk.bookmarksDetails)
    /\ ~bulk.isOpening =>
           /\ bulk.opened = <<>>
           /\ bulk.attempts = SubSeq(ListedIds(bulk.bookmarksDetails), 1, Len(bulk.attempts))
           /\ bulk.at \in {"refresh", "populate", "done"} =>
                  bulk.attempts = ListedIds(bulk.bookmarksDetails)

\* a step of the bulk action removes nothing but the entry it is at
RemovesOnlyListed ==
    bulk' # bulk =>
        Attached(hostTree) \ Attached(hostTree') \subseteq
            IF bulk.at = "remove" THEN {bulk.bookmarksDetails[bulk.k].id} ELSE {}

\* C22: Open All and Delete All work on the list of the most recent search
\* that listed bookmarks: one tab is created, or one removal by id is asked
\* for, per entry of that list and for nothing else, whatever was added to or
\* taken out of the folder since the search
C22_BulkSnapshot ==
    /\ []OnePerEntry
    /\ [][TakesSnapshot /\ RemovesOnlyListed]_vars

\* Delete All has finished over a list of two; one entry had been removed by
\* somebody else since the search, so one removal went through and one failed
C22_Witness ==
    /\ bulk.at = "done" /\ ~bulk.isOpening
    /\ Len(bulk.bookmarksDetails) = 2
    /\ bulk.attempts = ListedIds(bulk.bookmarksDetails)
    /\ bulk.successCount = 1
    /\ pendingEvents = 2

\* how many entries of seq are in S
CountIn(seq, S) == Cardinality({ k \in 1 .. Len(seq) : seq[k] \in S })

\* the loop of a Save, Delete or Move has dealt once with each tab before the
\* one it is at, and its three counters tell the outcomes apart
LoopCounts(i) ==
    LET r == inv[i]
        n == Len(r.tabsToProcess)
    IN  (r.kind \in {"save", "delete", "move"} /\ n > 0) =>
            /\ Len(r.outcomes) = r.k - 1
            /\ r.k <= n + 1
            /\ r.at \notin {"search", "mutate"} => r.k = n + 1
            /\ r.successCount = CountIn(r.outcomes, {"done"})
            /\ r.otherCount = CountIn(r.outcomes, {"exists", "notFound"})
            /\ r.errorCount =
                   Len(r.outcomes) - CountIn(r.outcomes, {"done", "exists", "notFound"})
            /\ r.successCount + r.otherCount + r.errorCount = Len(r.outcomes)

\* the error messages Delete All has shown for its entries
BulkErrors == CountIn(bulk.msgs, {Msg("Error with", TRUE)})

\* Delete All has tried once each entry before the one it is at, and ends
\* only after the last; the entries it did not count got an error message
BulkCounts ==
    LET n == Len(bulk.bookmarksDetails)
    IN  (~bulk.isOpening /\ n > 0) =>
            /\ Len(bulk.attempts) = bulk.k - 1
            /\ bulk.at # "remove" => Len(bulk.attempts) = n
            /\ bulk.successCount <= n
            /\ bulk.successCount + BulkErrors = Len(bulk.attempts)

\* C23: Save, Delete, Move and Delete All go through all n items of their
\* batch whatever the host rejects on the way: each item is dealt with once,
\* the counters of Save (saved, existed, failed) and of Delete and Move (done,
\* not found, failed) add up to n, and Delete All makes one attempt per entry
\* with at most n successes
C23_BatchesComplete ==
    /\ \A i \in Invs : LoopCounts(i)
    /\ BulkCounts

\* a Delete over two tabs: the host rejected the first tab's request, the
\* second tab was still looked up, and the handler has ended
C23_Witness ==
    \E i \in Invs :
        /\ inv[i].kind = "delete" /\ inv[i].at = "done"
        /\ Len(inv[i].tabsToProcess) = 2
        /\ inv[i].outcomes[1] \in {"lookupFailed", "failed"}
        /\ inv[i].outcomes[2] \in {"notFound", "done"}
        /\ inv[i].errorCount = 1

(***************************************************************************)
(* The locations dropdown while other clients of the host add folders and  *)
(* bookmarks                                                               *)
(***************************************************************************)
\* somebody else creates a folder; the host tells the popup
HostAddsFolderNow(p) ==
    /\ HostCreate(p, <<"c">>, NoUrl)
    /\ pendingEvents' = pendingEvents + 1
    /\ UNCHANGED << bookmarkStore, nextBookmarkId, syncStore, tabs,
                    folderSelectValue, locOptions, locValue,
                    hasPopulatedBookmarkFolders, inv, panelVars >>

\* somebody else bookmarks the page of the active tab in folder p
HostBookmarksPage(p) ==
    /\ tabs # <<>> /\ IsWebUrl(tabs[1].url)
    /\ p \in FolderIds(hostTree) \ {RootId}
    /\ \A b \in searchBookmarks(bookmarkStore, tabs[1].url) : b.parentId # p
    /\ bookmarkStore' = bookmarkStore \cup
           {Bookmark(nextBookmarkId, tabs[1].url, p, tabs[1].title)}
    /\ nextBookmarkId' = nextBookmarkId + 1
    /\ pendingEvents' = pendingEvents + 1
    /\ UNCHANGED << hostTree, now, localStore, globalVars, callVars, syncStore,
                    tabs, folderSelectValue, locOptions, locValue,
                    hasPopulatedBookmarkFolders, inv, panelVars >>

LocationsNext ==
    \/ \E p \in NodeIds : HostAddsFolderNow(p)
    \/ \E p \in NodeIds : HostBookmarksPage(p)
    \/ \E i \in Invs, force \in BOOLEAN : populateBookmarkFolderOptions(i, force) /\ UNCHANGED panelVars
    \/ \E i \in Invs, ok \in BOOLEAN : PopTabsReply(i, ok) /\ UNCHANGED panelVars
    \/ \E i \in Invs, ok \in BOOLEAN : PopSearchReply(i, ok) /\ UNCHANGED panelVars
    \/ \E i \in Invs, ok \in BOOLEAN : PopStoreReply(i, ok) /\ UNCHANGED panelVars
    \/ handleBookmarkChange /\ UNCHANGED panelVars

\* the popup after its initial load, with only its locations dropdown in use
LocationsInit == ButtonsInit /\ globalFolderTitleMap # None

LocationsSpec == LocationsInit /\ [][LocationsNext]_vars

\* the search of populateBookmarkFolderOptions has answered handler i with
\* bookmarks in folders, and the options have been built
OptionsBuilt(i) == inv[i].at = "popSearch" /\ inv'[i].at = "popStore"

\* C24 (as claimed): when populateBookmarkFolderOptions has built the options
\* for an active web page, the folders offered are exactly the parent folders
\* of the bookmarks of the page's url, the root left out, folders created
\* after the hierarchy was last fetched included
C24_Original ==
    [][\A i \in Invs :
          OptionsBuilt(i) =>
              Range(locOptions') =
                  { b.parentId : b \in searchBookmarks(bookmarkStore, tabs[1].url) }
                      \ {RootId}]_vars

\* a bookmark event is delivered to the popup in this step
Notified == pendingEvents' < pendingEvents

\* C25: a bookmark change notification only resets hasPopulatedBookmarkFolders:
\* the cache entry and its timestamp, the folder list and index in memory and
\* the synced preferences stay as they are, and no host call is made
C25_NotificationOnlyResets ==
    [][Notified =>
          /\ hasPopulatedBookmarkFolders' = FALSE
          /\ UNCHANGED << localStore, globalVars, syncStore, callVars, hostTree,
                          bookmarkStore, locOptions, locValue, inv, search, bulk >>]_vars

\* after a Save and its final populate a notification has reset the flag: the
\* locations are still shown, the cache entry and the index are in place
C25_Witness ==
    /\ hasPopulatedBookmarkFolders = FALSE
    /\ locOptions # <<>>
    /\ \A i \in Invs : inv[i].at \in {"idle", "done"}
    /\ \E i \in Invs : "bookmarks.create" \in inv[i].log
    /\ localStore # NoEntry
    /\ globalFolderTitleMap # None

(***************************************************************************)
(* The keyboard shortcuts of the service worker (worker.js)                *)
(***************************************************************************)
\* the highlighted tabs a shortcut can find
WorkerTabSets ==
    { <<>>, << Tab(UrlA, <<"t">>) >>, << Tab(UrlA, <<"t">>), Tab(UrlB, <<"t">>) >> }

\* the bookmarks in the host before the first press
WorkerStores ==
    { {},
      {Bookmark(FirstBookmarkId, UrlA, 1, <<"t">>)},
      {Bookmark(FirstBookmarkId, UrlA, 2, <<"t">>)},
      {Bookmark(FirstBookmarkId, UrlA, 1, <<"t">>),
       Bookmark(FirstBookmarkId + 1, UrlA, 2, <<"t">>)},
      {Bookmark(FirstBookmarkId, UrlA, 1, <<"t">>),
       Bookmark(FirstBookmarkId + 1, UrlB, 2, <<"t">>)} }

\* the requests a shortcut sends to the host
CreateRequest(parentId, tab) ==
    [op |-> "create", parentId |-> parentId, title |-> tab.title, url |-> tab.url,
     id |-> 0]
SearchRequest(tab) ==
    [op |-> "search", parentId |-> NoFolder, title |-> tab.title, url |-> tab.url,
     id |-> 0]
RemoveRequest(b) ==
    [op |-> "remove", parentId |-> b.parentId, title |-> b.title, url |-> b.url,
     id |-> b.id]

\* what the worker leaves alone: the popup is closed
besideWorker ==
    << hostTree, now, localStore, globalVars, callVars, tabs, folderSelectValue,
       locOptions, locValue, hasPopulatedBookmarkFolders, inv, search, bulk >>

\* chrome.commands.onCommand: the shortcut reads the default folder
onCommand(command) ==
    /\ bg.at = "idle"
    /\ bg.presses < MaxPresses
    /\ bg' = [NoShortcut EXCEPT !.at = "get", !.presses = bg.presses + 1,
                                !.command = command]
    /\ UNCHANGED << bookmarkStore, nextBookmarkId, syncStore, pendingEvents,
                    besideWorker >>

\* chrome.storage.sync.get(['defaultFolderId']) answers: without a default
\* folder the shortcut ends, with one it asks for the highlighted tabs
DefaultFolderReply ==
    /\ bg.at = "get"
    /\ bg' = IF syncStore.defaultFolderId = None
             THEN [bg EXCEPT !.at = "idle"]
             ELSE [bg EXCEPT !.at = "tabs",
                             !.defaultFolderId = syncStore.defaultFolderId,
                             !.log = @ \cup {"tabs.query"}]
    /\ UNCHANGED << bookmarkStore, nextBookmarkId, syncStore, pendingEvents,
                    besideWorker >>

\* a save shortcut that skips the tabs already bookmarked in the default folder
HighlightedTabsReplySkipsSaved ==
    /\ bg.at = "tabs"
    /\ LET new == SelectSeq(tabs, LAMBDA tab :
                      \A b \in searchBookmarks(bookmarkStore, tab.url) :
                          b.parentId # Val(bg.defaultFolderId))
           requests ==
               IF bg.command = "save-bookmark"
               THEN [k \in 1 .. Len(new) |->
                        CreateRequest(Val(bg.defaultFolderId), new[k])]
               ELSE [k \in 1 .. Len(tabs) |-> SearchRequest(tabs[k])]
       IN  bg' = [bg EXCEPT !.at = IF requests = <<>> THEN "idle" ELSE "work",
                            !.tabs = tabs,
                            !.pending = requests,
                            !.asked = requests]
    /\ UNCHANGED << bookmarkStore, nextBookmarkId, syncStore, pendingEvents,
                    besideWorker >>

\* chrome.tabs.query({currentWindow, highlighted}) answers: forEach sends one
\* create (save) or one search (delete) per tab, without waiting
HighlightedTabsReply ==
    /\ bg.at = "tabs"
    /\ LET requests ==
               [k \in 1 .. Len(tabs) |->
                   IF bg.command = "save-bookmark"
                   THEN CreateRequest(Val(bg.defaultFolderId), tabs[k])
                   ELSE SearchRequest(tabs[k])]
       IN  bg' = [bg EXCEPT !.at = IF requests = <<>> THEN "idle" ELSE "work",
                            !.tabs = tabs,
                            !.pending = requests,
                            !.asked = requests]
    /\ UNCHANGED << bookmarkStore, nextBookmarkId, syncStore, pendingEvents,
                    besideWorker >>

\* the shortcut with its first request served
Served(b) ==
    [b EXCEPT !.pending = Tail(@),
              !.at = IF Len(b.pending) = 1 THEN "idle" ELSE "work"]

\* the host serves chrome.bookmarks.create of the save shortcut
HostCreates(ok) ==
    /\ bg.at = "work" /\ Head(bg.pending).op = "create"
    /\ LET q == Head(bg.pending)
       IN  IF ok
           THEN /\ bookmarkStore' = bookmarkStore \cup
                       {Bookmark(nextBookmarkId, q.url, q.parentId, q.title)}
                /\ nextBookmarkId' = nextBookmarkId + 1
                /\ pendingEvents' = pendingEvents + 1
                /\ bg' = [Served(bg) EXCEPT !.created = @ \cup {nextBookmarkId}]
           ELSE /\ bg' = [Served(bg) EXCEPT !.rejected = @ + 1]
                /\ UNCHANGED << bookmarkStore, nextBookmarkId, pendingEvents >>
    /\ UNCHANGED << syncStore, besideWorker >>

\* the host serves chrome.bookmarks.search({url}) of the delete shortcut, in
\* an order of its own; the callback asks for the removal of the last result
HostSearches(results) ==
    /\ bg.at = "work" /\ Head(bg.pending).op = "search"
    /\ results \in Orderings(searchBookmarks(bookmarkStore, Head(bg.pending).url))
    /\ LET lastBookmarked == results[Len(results)]
       IN  bg' = IF Len(results) > 0
                 THEN [bg EXCEPT !.pending = Append(Tail(@), RemoveRequest(lastBookmarked)),
                                 !.asked = Append(@, RemoveRequest(lastBookmarked))]
                 ELSE Served(bg)
    /\ UNCHANGED << bookmarkStore, nextBookmarkId, syncStore, pendingEvents,
                    besideWorker >>

\* the host serves chrome.bookmarks.remove(lastBookmarked.id)
HostRemoves(ok) ==
    /\ bg.at = "work" /\ Head(bg.pending).op = "remove"
    /\ LET q == Head(bg.pending)
           gone == { b \in bookmarkStore : b.id = q.id }
       IN  /\ ok => gone # {}
           /\ IF ok
              THEN /\ bookmarkStore' = bookmarkStore \ gone
                   /\ pendingEvents' = pendingEvents + 1
                   /\ bg' = [Served(bg) EXCEPT !.removed = Append(@, q)]
              ELSE /\ bg' = [Served(bg) EXCEPT !.rejected = @ + 1]
                   /\ UNCHANGED << bookmarkStore, pendingEvents >>
    /\ UNCHANGED << nextBookmarkId, syncStore, besideWorker >>

\* the browser without the popup: bookmarks in the host, a default folder
\* stored or not, highlighted tabs
WorkerInit ==
    /\ hostTree = SampleTree
    /\ now = StartNow
    /\ localStore = NoEntry
    /\ globalFlatFolderList = None
    /\ globalFolderTitleMap = None
    /\ InitCalls
    /\ bookmarkStore \in WorkerStores
    /\ nextBookmarkId = FirstBookmarkId + 2
    /\ syncStore \in { [defaultFolderId |-> d, lastBookmarkedFolderID |-> None] :
                          d \in {None, Some(1), Some(2)} }
    /\ tabs \in WorkerTabSets
    /\ folderSelectValue = NoFolder
    /\ locOptions = <<>>
    /\ locValue = NoFolder
    /\ hasPopulatedBookmarkFolders = FALSE
    /\ pendingEvents = 0
    /\ inv = [i \in Invs |-> NoInv]
    /\ search = NoSearch
    /\ bulk = NoBulk
    /\ bg = [NoShortcut EXCEPT !.at = "idle"]

WorkerNext ==
    \/ \E command \in {"save-bookmark", "delete-bookmark"} : onCommand(command)
    \/ DefaultFolderReply
    \/ HighlightedTabsReply
    \/ \E ok \in BOOLEAN : HostCreates(ok)
    \/ \E results \in UNION { Orderings(S) : S \in SUBSET bookmarkStore } :
           HostSearches(results)
    \/ \E ok \in BOOLEAN : HostRemoves(ok)

WorkerSpec == WorkerInit /\ [][WorkerNext]_vars

\* the bookmarks the running save shortcut has got from the host
CreatedByShortcut == { b \in bookmarkStore : b.id \in bg.created }

\* without a stored default folder a shortcut asks for no tabs and sends no
\* request
NoDefaultNoWork ==
    syncStore.defaultFolderId = None =>
        bg.log = {} /\ bg.asked = <<>> /\ bg.created = {} /\ bg.removed = <<>>

\* the save shortcut sends one create per highlighted tab, for the tab's url
\* and title under the stored default folder, and every create the host
\* carries out adds one such bookmark
OneCreatePerTab ==
    (bg.command = "save-bookmark" /\ "tabs.query" \in bg.log /\ bg.at # "tabs") =>
        /\ bg.asked = [k \in 1 .. Len(tabs) |->
                          CreateRequest(Val(syncStore.defaultFolderId), tabs[k])]
        /\ \A b \in CreatedByShortcut :
               /\ b.parentId = Val(syncStore.defaultFolderId)
               /\ \E k \in 1 .. Len(tabs) : tabs[k].url = b.url
        /\ Cardinality(CreatedByShortcut) = Cardinality(bg.created)
        /\ Cardinality(bg.created) + bg.rejected + Len(bg.pending) = Len(tabs)

\* C26: the save shortcut asks the host for exactly one bookmark per
\* highlighted tab of the current window, each under the stored default
\* folder, and gets one bookmark for each request the host carries out; when
\* no default folder is stored it queries no tabs and creates nothing
C26_SaveShortcut == NoDefaultNoWork /\ OneCreatePerTab

\* a save shortcut over two highlighted tabs has ended with two new
\* bookmarks, one of a page the default folder already held
C26_Witness ==
    /\ bg.command = "save-bookmark" /\ bg.at = "idle"
    /\ Len(tabs) = 2
    /\ Cardinality(bg.created) = 2
    /\ \E b \in bookmarkStore \ CreatedByShortcut :
           b.parentId = Val(syncStore.defaultFolderId) /\ b.url = tabs[1].url

\* C27 (as claimed): with a default folder stored, the first press of the
\* delete shortcut removes the bookmark of the highlighted tab's url that
\* lies in the default folder; other folders are left for later presses
C27_Original ==
    (bg.command = "delete-bookmark" /\ bg.presses = 1) =>
        \A k \in 1 .. Len(bg.asked) :
            (bg.asked[k].op = "remove" /\ bg.asked[k].parentId # Val(bg.defaultFolderId)) =>
                \A b \in searchBookmarks(bookmarkStore, bg.asked[k].url) :
                    b.parentId # Val(bg.defaultFolderId)

(***************************************************************************)
(* The dropdowns while a handler is suspended                              *)
(***************************************************************************)
\* handler i is between its tab query and the end of its loop
InBatch(i) == inv[i].at \in {"tabs", "search", "mutate"}

\* handler i resumes from a lookup in this step and sends its create, remove
\* or move
SendsMutation(i) == inv[i].at = "search" /\ inv'[i].at = "mutate"

\* C28 (as claimed): the create, remove or move a handler sends when it
\* resumes works with the folders the dropdowns show at that moment: Save
\* and Move use the target selected then, Delete and Move the source selected
\* then
C28_Original ==
    [][\A i \in Invs :
          SendsMutation(i) =>
              /\ inv[i].kind \in {"save", "move"} => inv[i].folderId = folderSelectValue
              /\ inv[i].kind \in {"delete", "move"} => inv[i].fromFolderId = locValue]_vars

\* the handler reads the dropdowns in the stretch that sends its tab query
ReadsBeforeTabs ==
    \A i \in Invs :
        (inv[i].at # "tabs" /\ inv'[i].at = "tabs") =>
            /\ inv'[i].kind \in {"save", "move"} => inv'[i].folderId = folderSelectValue'
            /\ inv'[i].kind \in {"delete", "move"} => inv'[i].fromFolderId = locValue'

\* from then on the handler keeps the folders it has read, and what it sends
\* is for them: a create or a move into the target read, a remove or a move
\* of a bookmark found in the source read
KeepsWhatItRead ==
    \A i \in Invs :
        /\ InBatch(i) =>
               /\ inv'[i].folderId = inv[i].folderId
               /\ inv'[i].fromFolderId = inv[i].fromFolderId
        /\ (SendsMutation(i) /\ inv[i].kind \in {"delete", "move"}) =>
               \E b \in bookmarkStore :
                   b.id = inv'[i].target /\ b.parentId = inv[i].fromFolderId
        /\ (inv[i].at = "mutate" /\ inv'[i] # inv[i] /\ inv[i].kind \in {"save", "move"}) =>
               \A b \in bookmarkStore' \ bookmarkStore : b.parentId = inv[i].folderId

\* C28 (amended): Save reads the target folder once, when it is pressed;
\* Delete and Move read the source (and Move the target) once, after their
\* first step has re-populated the locations and before the tab query. Every
\* later lookup, create, remove and move of the handler uses the folders read
\* then, whatever the user selects while the handler is suspended
C28_SelectionCaptured == [][ReadsBeforeTabs /\ KeepsWhatItRead]_vars

\* a Save is waiting for its create under the folder it read when pressed,
\* while the dropdown shows the folder the user has picked since
C28_Witness ==
    \E i \in Invs :
        /\ inv[i].kind = "save" /\ inv[i].at = "mutate"
        /\ inv[i].folderId # folderSelectValue
        /\ folderSelectValue # NoFolder

\* the folders populateBookmarkFolderOptions would offer for the active tab
\* if it searched now
CurrentLocations ==
    ContainingFolders(bookmarkStore, tabs[1].url, Val(globalFolderTitleMap))

\* populateBookmarkFolderOptions, run by handler i with no other handler
\* about, marks the dropdown as populated in this step
MarksPopulated(i) ==
    /\ inv[i].at = "popStore" /\ inv'[i].at = "done"
    /\ hasPopulatedBookmarkFolders'
    /\ \A j \in Invs \ {i} : inv[j].kind = "none"

\* C29 (as claimed): whenever hasPopulatedBookmarkFolders is true, the
\* locations dropdown comes from a search made after the last notification:
\* when populateBookmarkFolderOptions marks the dropdown as populated and
\* every bookmark event has been delivered, the dropdown shows the folders
\* that hold the page now, also when an event arrived while the function was
\* suspended
C29_Original ==
    [][\A i \in Invs :
          (MarksPopulated(i) /\ pendingEvents = 0) =>
              Range(locOptions') = CurrentLocations]_vars

\* no folder holds two bookmarks of one url
NoDuplicatePairs ==
    \A a, b \in bookmarkStore :
        (a.url = b.url /\ a.parentId = b.parentId) => a.id = b.id

\* C30 (as claimed): starting from a store without duplicates, whatever the
\* order and the overlap of the Saves, Deletes and Moves of the popup, no
\* folder ever holds two bookmarks of the same url
C30_Original == NoDuplicatePairs

====
